---- MODULE Spec2Model ----
(***************************************************************************)
(* Verification model of agentskills_eval: the workspace sandbox           *)
(* (safe_join), the budgeted context assembler, the interactive agent      *)
(* loop and the trace-based eval harness.                                  *)
(*                                                                         *)
(* Text is modelled as a sequence of one-character strings, so that        *)
(* stripping, substring removal, joining and matching are computed the way *)
(* the Python code computes them.                                          *)
(***************************************************************************)
EXTENDS Integers, Sequences, FiniteSets, TLC

VARIABLES
    \* ---- workspace sandbox (safe_join called on its own)
    sj_pc,          \* "off" | "call" | "done"
    relpath,        \* the relpath argument of safe_join
    abspath,        \* the value safe_join returned
    \* ---- interactive agent session (src/interactive.py main)
    pc,             \* "off" | "start" | "crashed" | "prompt" | "loop" | "aborted" | "exited"
    namespace,      \* the attributes of args, the namespace main works on
    context_str,    \* text returned by build_context
    skills_context, \* text returned by build_skills_context
    max_steps,      \* args.max_steps
    conversation,   \* the list sent to the model with every request
    resp,           \* output items of the latest model response
    step,           \* iterations of the tool loop completed in this turn
    pending_calls,  \* tool-call items of the response being dispatched
    tool_outputs,   \* results collected in the current dispatch round
    files,          \* the workspace: resolved location -> file content
    requests,       \* model requests made in the current turn
    all_calls,      \* every response of the current turn held a tool call
    total_requests, \* model requests made in the session
    user_input,     \* the line last read at the prompt
    session_start,  \* the conversation as it was when the session started
    \* ---- context assembler (src/common.py, src/personality.py)
    ctx_pc,         \* "off" | "call" | "done"
    ctx_fn,         \* which builder is called: "skills" | "context" | "personality"
    tree,           \* the workspace tree: relative path -> file status
    ctx_files,      \* the `files` argument (build_context, build_personality_context)
    max_chars_total,\* the budget argument
    ctx_result,     \* the (context, meta) pair returned
    \* ---- eval harness (src/eval.py)
    ev_pc,          \* "off" | "call" (eval_case is called) | "main" | "done" | "raised" | "exited"
    ev_namespace,   \* the attributes of args, the namespace main of eval.py works on
    runner_calls,   \* runner processes started so far
    cases,          \* the eval cases, in file order
    runs,           \* what the runner does for each case
    ev_result,      \* the dict eval_case returned
    report,         \* the aggregate report main printed
    exit_code,      \* the exit status of the harness process
    \* ---- frontmatter name (src/common.py extract_frontmatter_name)
    fm_pc,          \* "off" | "call" | "done"
    fm_text,        \* the argument md_text: the text of a skill file
    fm_name         \* the name returned

sjVars == <<sj_pc, relpath, abspath>>

loopVars == <<pc, namespace, context_str, skills_context, max_steps, conversation, resp,
              step, pending_calls, tool_outputs, files, requests, all_calls,
              total_requests, user_input, session_start>>

ctxVars == <<ctx_pc, ctx_fn, tree, ctx_files, max_chars_total, ctx_result>>

evVars == <<ev_pc, ev_namespace, runner_calls, cases, runs, ev_result, report, exit_code>>

fmVars == <<fm_pc, fm_text, fm_name>>

vars == <<sjVars, loopVars, ctxVars, evVars, fmVars>>

(***************************************************************************)
(* Bounds of the model.                                                    *)
(***************************************************************************)
MaxPathLen == 4
MaxSteps == 2
MaxRequests == 3
MaxBudget == 260
MaxFiles == 2
MaxTrace == 2
MaxList == 1
MaxCases == 2
MaxLines == 4

(***************************************************************************)
(* Text helpers.                                                           *)
(***************************************************************************)
\* All sequences over S of length at most n.
SeqsUpTo(S, n) == UNION {[1..k -> S] : k \in 0..n}

\* s without its first k elements.
Drop(s, k) == SubSeq(s, k + 1, Len(s))

\* p is a prefix of s.
IsPrefix(p, s) == Len(p) <= Len(s) /\ SubSeq(s, 1, Len(p)) = p

(***************************************************************************)
(* Workspace sandbox: src/common.py, src/interactive.py, src/personality.py *)
(***************************************************************************)
\* The characters path inputs are drawn from.
PathChars == {".", "/", "e"}

\* The workspace root: the absolute path "/w".
WorkspaceRoot == <<"/", "w">>

\* str.lstrip("/"): drop every leading "/".
RECURSIVE lstrip_slash(_)
lstrip_slash(s) ==
    IF s # <<>> /\ Head(s) = "/" THEN lstrip_slash(Tail(s)) ELSE s

\* str.replace("..", ""): one left-to-right pass over non-overlapping
\* occurrences; the result is not scanned again.
RECURSIVE replace_dotdot(_)
replace_dotdot(s) ==
    IF s = <<>> THEN <<>>
    ELSE IF Len(s) >= 2 /\ s[1] = "." /\ s[2] = "."
         THEN replace_dotdot(Drop(s, 2))
         ELSE <<Head(s)>> \o replace_dotdot(Tail(s))

\* os.path.join(a, b) on POSIX: an absolute b replaces a; otherwise b is
\* appended to a, with a "/" between them unless a is empty or ends in "/".
os_path_join(a, b) ==
    IF b # <<>> /\ Head(b) = "/" THEN b
    ELSE IF a = <<>> \/ a[Len(a)] = "/" THEN a \o b
    ELSE a \o <<"/">> \o b

\* safe_join(workspace, relpath)
safe_join(workspace, rp) ==
    os_path_join(workspace, replace_dotdot(lstrip_slash(rp)))

\* The components of a path: the maximal runs of characters other than "/".
RECURSIVE Components(_, _)
Components(s, cur) ==
    IF s = <<>> THEN (IF cur = <<>> THEN <<>> ELSE <<cur>>)
    ELSE IF Head(s) = "/"
         THEN (IF cur = <<>> THEN <<>> ELSE <<cur>>) \o Components(Tail(s), <<>>)
         ELSE Components(Tail(s), Append(cur, Head(s)))

\* The location an absolute path resolves to: "." and empty components are
\* dropped, ".." removes the component before it (and stays at "/" at the top).
RECURSIVE ResolveComponents(_, _)
ResolveComponents(cs, acc) ==
    IF cs = <<>> THEN acc
    ELSE IF Head(cs) = <<".">> THEN ResolveComponents(Tail(cs), acc)
    ELSE IF Head(cs) = <<".", ".">>
         THEN ResolveComponents(Tail(cs),
                  IF acc = <<>> THEN acc ELSE SubSeq(acc, 1, Len(acc) - 1))
    ELSE ResolveComponents(Tail(cs), Append(acc, Head(cs)))

Resolve(path) == ResolveComponents(Components(path, <<>>), <<>>)

\* path resolves to the root or to a location below it.
InsideRoot(root, path) == IsPrefix(Resolve(root), Resolve(path))

\* A relative path: one that does not start with the separator.
IsRelative(p) == p = <<>> \/ Head(p) # "/"

PathInputs == SeqsUpTo(PathChars, MaxPathLen)

SjInit ==
    /\ sj_pc = "call"
    /\ relpath \in PathInputs
    /\ abspath = <<>>

SjIdle ==
    /\ sj_pc = "off"
    /\ relpath = <<>>
    /\ abspath = <<>>

\* One call of safe_join(WorkspaceRoot, relpath).
SafeJoin ==
    /\ sj_pc = "call"
    /\ abspath' = safe_join(WorkspaceRoot, relpath)
    /\ sj_pc' = "done"
    /\ UNCHANGED relpath

(***************************************************************************)
(* Workspace files: src/interactive.py read_file, write_file, run_shell    *)
(***************************************************************************)
\* The workspace is a function from resolved locations (component lists) to
\* file contents.  A directory is the root or a proper prefix of a file's
\* location.
IsDirectory(fs, loc) ==
    \/ IsPrefix(loc, Resolve(WorkspaceRoot))
    \/ \E f \in DOMAIN fs : IsPrefix(loc, f) /\ loc # f

\* Some proper ancestor of loc is a regular file (os.makedirs then fails).
AncestorIsFile(fs, loc) ==
    \E k \in 0..(Len(loc) - 1) : SubSeq(loc, 1, k) \in DOMAIN fs

\* A variant of read_file that gives "" for a location that is absent.
read_file_absent_empty(fs, path) ==
    LET loc == Resolve(safe_join(WorkspaceRoot, path)) IN
    IF loc \in DOMAIN fs
    THEN [raised |-> FALSE, fs |-> fs, out |-> fs[loc]]
    ELSE [raised |-> FALSE, fs |-> fs, out |-> <<>>]

\* read_file(workspace, path): open() raises when the location is absent or
\* is a directory.
read_file(fs, path) ==
    LET loc == Resolve(safe_join(WorkspaceRoot, path)) IN
    IF loc \in DOMAIN fs
    THEN [raised |-> FALSE, fs |-> fs, out |-> fs[loc]]
    ELSE [raised |-> TRUE, fs |-> fs, out |-> <<>>]

\* write_file(workspace, path, content): makedirs of the parent, then open
\* for writing; raises when the location is a directory or below a file.
write_file(fs, path, content) ==
    LET loc == Resolve(safe_join(WorkspaceRoot, path)) IN
    IF IsDirectory(fs, loc) \/ AncestorIsFile(fs, loc)
    THEN [raised |-> TRUE, fs |-> fs, out |-> <<>>]
    ELSE [raised |-> FALSE,
          fs |-> [l \in DOMAIN fs \cup {loc} |-> IF l = loc THEN content ELSE fs[l]],
          out |-> [wrote |-> Len(content), to |-> path]]

\* The shell commands of the model and what they do in the workspace.
CmdEmpty == <<>>
CmdRmA == <<"r", "m", " ", "a">>
LocA == <<<<"w">>, <<"a">>>>

\* run_shell(workspace, command): never raises; a nonzero exit status is a
\* normal result.  "rm a" removes the file a of the workspace (status 1 when
\* there is none), the empty command does nothing.
run_shell(fs, command) ==
    IF command = CmdRmA
    THEN IF LocA \in DOMAIN fs
         THEN [raised |-> FALSE,
               fs |-> [l \in DOMAIN fs \ {LocA} |-> fs[l]],
               out |-> [command |-> command, exit_code |-> 0]]
         ELSE [raised |-> FALSE, fs |-> fs,
               out |-> [command |-> command, exit_code |-> 1]]
    ELSE [raised |-> FALSE, fs |-> fs,
          out |-> [command |-> command, exit_code |-> 0]]

(***************************************************************************)
(* Response items and their normalisation: src/interactive.py              *)
(***************************************************************************)
\* dict.get(key, default)
Get(d, key, default) == IF key \in DOMAIN d THEN d[key] ELSE default

\* Python's None, where a dict.get finds no key.
None == "None"

\* item_to_dict(item): a dict is returned as it is, an SDK object is dumped
\* to its fields, anything else becomes {"type": <type name>}.
item_to_dict(item) ==
    IF item.py = "dict" THEN item.d
    ELSE IF item.py = "model" THEN item.d
    ELSE IF item.py = "object" THEN item.d
    ELSE [type |-> item.py]

\* The argument payloads a call can carry: a JSON text (of an object, of
\* another JSON value, or invalid), or nothing (None or "").
EmptyDict == [k \in {} |-> <<>>]
NotADict == [isdict |-> FALSE, d |-> EmptyDict]
JsonObject(d) == [falsy |-> FALSE, parses |-> TRUE, value |-> [isdict |-> TRUE, d |-> d]]
JsonArray == [falsy |-> FALSE, parses |-> TRUE, value |-> NotADict]
JsonInvalid == [falsy |-> FALSE, parses |-> FALSE, value |-> NotADict]
NoArguments == [falsy |-> TRUE, parses |-> FALSE, value |-> NotADict]

\* Lines 325-339: arguments = ... or "{}"; json.loads(arguments); {} when
\* json.loads raises.
parse_arguments(arguments) ==
    IF arguments.falsy THEN [isdict |-> TRUE, d |-> EmptyDict]
    ELSE IF arguments.parses THEN arguments.value
    ELSE [isdict |-> TRUE, d |-> EmptyDict]

\* str.strip() is empty: every character is whitespace.
IsBlank(s) == \A i \in 1..Len(s) : s[i] \in {" ", "\n", "\t"}

\* The text an item contributes (lines 409-421): <<>> when it contributes
\* none, else <<text>>.
RECURSIVE LastPartText(_, _)
LastPartText(parts, acc) ==
    IF parts = <<>> THEN acc
    ELSE LET part == Head(parts) IN
         LastPartText(Tail(parts),
             IF Get(part, "type", None) = "output_text"
                /\ ~IsBlank(Get(part, "text", <<>>))
             THEN <<Get(part, "text", <<>>)>> ELSE acc)

ItemText(d) ==
    IF Get(d, "type", None) \in {"output_text", "message"}
    THEN LET content == Get(d, "content", [kind |-> "none"]) IN
         IF content.kind = "str" /\ ~IsBlank(content.v) THEN <<content.v>>
         ELSE IF content.kind = "list" THEN LastPartText(content.v, <<>>)
         ELSE <<>>
    ELSE <<>>

\* A variant of final_text that gives "" for a response that holds a tool
\* call.
final_text_unless_calls(items, acc) ==
    IF SelectSeq(items, LAMBDA it : Get(item_to_dict(it), "type", None)
                                        \in {"tool_call", "function_call"}) # <<>>
    THEN <<>>
    ELSE LET ps == {i \in 1..Len(items) : ItemText(item_to_dict(items[i])) # <<>>}
         IN  IF ps = {} THEN acc
             ELSE ItemText(item_to_dict(items[CHOOSE i \in ps : \A j \in ps : j <= i]))[1]

\* A variant of final_text that keeps the first text instead of the last.
RECURSIVE final_text_first(_, _)
final_text_first(items, acc) ==
    IF items = <<>> THEN acc
    ELSE LET t == ItemText(item_to_dict(Head(items))) IN
         IF t = <<>> THEN final_text_first(Tail(items), acc) ELSE t[1]

\* final_text after the loop: the last text any item of resp contributes.
RECURSIVE final_text_of(_, _)
final_text_of(items, acc) ==
    IF items = <<>> THEN acc
    ELSE LET t == ItemText(item_to_dict(Head(items))) IN
         final_text_of(Tail(items), IF t = <<>> THEN acc ELSE t[1])

IsCallItem(item) == Get(item_to_dict(item), "type", None) \in {"tool_call", "function_call"}

\* element-wise image of a sequence
RECURSIVE DictsOf(_)
DictsOf(items) ==
    IF items = <<>> THEN <<>>
    ELSE <<item_to_dict(Head(items))>> \o DictsOf(Tail(items))

\* pending_calls (lines 291-298): the tool-call items of resp, in order.
pending_of(items) == DictsOf(SelectSeq(items, IsCallItem))

(***************************************************************************)
(* Tool dispatch: src/interactive.py lines 320-399                         *)
(***************************************************************************)
call_name(call) ==
    IF Get(call, "type", None) = "function_call"
    THEN Get(call, "name", None)
    ELSE Get(Get(call, "function", EmptyDict), "name", None)

call_arguments(call) ==
    IF Get(call, "type", None) = "function_call"
    THEN Get(call, "arguments", NoArguments)
    ELSE Get(Get(call, "function", EmptyDict), "arguments", NoArguments)

\* A variant of the result item that does not carry the id of its call.
ToolOutput_no_id(call, out) ==
    [type |-> "function_call_output", call_id |-> None, output |-> out]

ToolOutput(call, out) ==
    [type |-> "function_call_output", call_id |-> Get(call, "id", None), output |-> out]

Raised(fs) == [raised |-> TRUE, fs |-> fs, out |-> <<>>]

\* A variant of the dispatch in which a name that is no tool raises.
exec_call_unknown_raises(fs, call) ==
    LET name == call_name(call)
        args_obj == parse_arguments(call_arguments(call))
    IN  IF name = "read_file"
        THEN IF ~args_obj.isdict THEN Raised(fs)
             ELSE read_file(fs, Get(args_obj.d, "path", <<>>))
        ELSE IF name = "write_file"
        THEN IF ~args_obj.isdict THEN Raised(fs)
             ELSE write_file(fs, Get(args_obj.d, "path", <<>>),
                             Get(args_obj.d, "content", <<>>))
        ELSE IF name = "run_shell"
        THEN IF ~args_obj.isdict THEN Raised(fs)
             ELSE run_shell(fs, Get(args_obj.d, "command", <<>>))
        ELSE Raised(fs)

\* One iteration of `for call in pending_calls`.  args_obj.get raises when
\* the parsed payload is not a dict.
exec_call(fs, call) ==
    LET name == call_name(call)
        args_obj == parse_arguments(call_arguments(call))
    IN  IF name = "read_file"
        THEN IF ~args_obj.isdict THEN Raised(fs)
             ELSE read_file(fs, Get(args_obj.d, "path", <<>>))
        ELSE IF name = "write_file"
        THEN IF ~args_obj.isdict THEN Raised(fs)
             ELSE write_file(fs, Get(args_obj.d, "path", <<>>),
                             Get(args_obj.d, "content", <<>>))
        ELSE IF name = "run_shell"
        THEN IF ~args_obj.isdict THEN Raised(fs)
             ELSE run_shell(fs, Get(args_obj.d, "command", <<>>))
        ELSE [raised |-> FALSE, fs |-> fs, out |-> [unknown_tool |-> name]]

\* A variant of the loop that takes the calls from the last to the first.
RECURSIVE dispatch_from_last(_, _, _)
dispatch_from_last(fs, calls, outs) ==
    IF calls = <<>> THEN [raised |-> FALSE, fs |-> fs, outs |-> outs]
    ELSE LET c == calls[Len(calls)]
             r == exec_call(fs, c)
         IN  IF r.raised THEN [raised |-> TRUE, fs |-> r.fs, outs |-> outs]
             ELSE dispatch_from_last(r.fs, SubSeq(calls, 1, Len(calls) - 1),
                                     Append(outs, ToolOutput(c, r.out)))

\* A variant of the loop that undoes what the earlier calls of the round did
\* to the workspace when a call raises.
RECURSIVE dispatch_rollback(_, _, _)
dispatch_rollback(fs, calls, outs) ==
    IF calls = <<>> THEN [raised |-> FALSE, fs |-> fs, outs |-> outs]
    ELSE LET r == exec_call(fs, Head(calls)) IN
         IF r.raised THEN [raised |-> TRUE, fs |-> fs, outs |-> outs]
         ELSE LET rest == dispatch_rollback(r.fs, Tail(calls),
                              Append(outs, ToolOutput(Head(calls), r.out)))
              IN  IF rest.raised THEN [rest EXCEPT !.fs = fs] ELSE rest

\* The whole `for call in pending_calls` loop: the calls run one after the
\* other on the workspace the earlier ones left; an exception ends the loop
\* with the results collected so far.
RECURSIVE dispatch(_, _, _)
dispatch(fs, calls, outs) ==
    IF calls = <<>> THEN [raised |-> FALSE, fs |-> fs, outs |-> outs]
    ELSE LET r == exec_call(fs, Head(calls)) IN
         IF r.raised THEN [raised |-> TRUE, fs |-> r.fs, outs |-> outs]
         ELSE dispatch(r.fs, Tail(calls), Append(outs, ToolOutput(Head(calls), r.out)))

(***************************************************************************)
(* The model double: the responses a request can return.                   *)
(***************************************************************************)
AsDict(d) == [py |-> "dict", d |-> d]
AsModel(d) == [py |-> "model", d |-> d]

Str(s) == [kind |-> "str", v |-> s]
Parts(ps) == [kind |-> "list", v |-> ps]

Message(content) == [type |-> "message", content |-> content]
FunctionCall(id, name, arguments) ==
    [type |-> "function_call", id |-> id, name |-> name, arguments |-> arguments]
ToolCallItem(id, name, arguments) ==
    [type |-> "tool_call", id |-> id,
     function |-> [name |-> name, arguments |-> arguments]]

TextOk == <<"o", "k">>
TextHm == <<"h", "m">>
PathA == <<"a">>
ContentX == <<"x">>

RespText == <<AsModel(Message(Str(TextOk)))>>
RespWrite ==
    <<AsModel(FunctionCall("c1", "write_file",
          JsonObject([path |-> <<"/">> \o PathA, content |-> ContentX])))>>
RespReadUnknown ==
    <<AsDict(Message(Parts(<<[type |-> "output_text", text |-> TextHm]>>))),
      AsModel(FunctionCall("c1", "read_file", JsonObject([path |-> PathA]))),
      AsDict(ToolCallItem("c2", "bogus", JsonInvalid))>>
RespShell ==
    <<AsModel(FunctionCall("c1", "run_shell", JsonObject([command |-> CmdRmA])))>>
RespUnnamed ==
    <<AsDict([type |-> "function_call", id |-> "c3"]),
      AsDict(FunctionCall("c4", "nop", JsonArray))>>
RespBadArgs ==
    <<AsModel(FunctionCall("c1", "run_shell", JsonArray))>>

\* Two messages with text and then one whose text is blank; no tool call.
RespTexts ==
    <<AsDict(Message(Parts(<<[type |-> "output_text", text |-> TextHm]>>))),
      AsModel(Message(Str(TextOk))),
      AsDict(Message(Str(<<" ">>)))>>
\* Write a, remove it again, then a shell call whose payload is not JSON.
RespWriteRm ==
    <<AsModel(FunctionCall("c5", "write_file",
          JsonObject([path |-> PathA, content |-> ContentX]))),
      AsModel(FunctionCall("c6", "run_shell", JsonObject([command |-> CmdRmA]))),
      AsDict(ToolCallItem("c7", "run_shell", JsonInvalid))>>
\* Remove a, write y to a, read b (which no response ever writes), then
\* remove a again.
PathB == <<"b">>
ContentY == <<"y">>
RespPartial ==
    <<AsModel(FunctionCall("c8", "run_shell", JsonObject([command |-> CmdRmA]))),
      AsModel(FunctionCall("c9", "write_file",
          JsonObject([path |-> PathA, content |-> ContentY]))),
      AsModel(FunctionCall("c10", "read_file", JsonObject([path |-> PathB]))),
      AsModel(FunctionCall("c11", "run_shell", JsonObject([command |-> CmdRmA])))>>

Responses == {<<>>, RespText, RespWrite, RespReadUnknown, RespShell,
              RespUnnamed, RespBadArgs, RespTexts, RespWriteRm, RespPartial}

(***************************************************************************)
(* The interactive session: src/interactive.py main, lines 215-425         *)
(***************************************************************************)
\* context_str.strip() is empty.  The text a builder returns is a sequence
\* of segments: either none (""), or the introduction and the chunks, all
\* of which hold characters that are not whitespace.
ContextIsBlank(text) == text = <<>>

System(content) == [role |-> "system", content |-> content]

\* Lines 240-244: the conversation a session starts with.
initial_conversation(ctx, skills) ==
    LET c0 == <<>>
        c1 == IF ~ContextIsBlank(ctx) THEN Append(c0, System(ctx)) ELSE c0
    IN  IF ~ContextIsBlank(skills) THEN Append(c1, System(skills)) ELSE c1

\* A variant of the reset that empties the conversation and adds nothing.
cleared_to_empty(conv, ctx, skills) == <<>>

\* Lines 273-277: the conversation after `clear`.
cleared(conv, ctx, skills) ==
    LET c0 == <<>>
        c1 == IF ~ContextIsBlank(ctx) THEN Append(c0, System(ctx)) ELSE c0
    IN  IF ~ContextIsBlank(skills) THEN Append(c1, System(skills)) ELSE c1

\* A variant of the loop bound that runs one iteration more.
loop_bound_plus_one(n) == n + 1

\* Line 290: `for _ in range(args.max_steps)` runs max(n, 0) iterations.
loop_bound(n) == IF n < 0 THEN 0 ELSE n

\* The lines the user types: a message, `clear` and `exit`.
UserText == <<"g", "o">>
CmdClear == <<"c", "l", "e", "a", "r">>
CmdExit == <<"e", "x", "i", "t">>

\* The attributes of the namespace parse_args returns: one per option of the
\* parser (lines 181-214).  There is no skill_root among them.
ParserDests == {"workdir", "skills_dir", "max_skill_chars", "context_files",
                "max_steps", "model", "api_base"}

\* Lines 215-217: the arguments are parsed and the workspace directory is
\* made, empty; nothing is built yet.
LoopInit ==
    /\ pc = "start"
    /\ namespace = ParserDests
    /\ context_str = <<>>
    /\ skills_context = <<>>
    /\ max_steps \in 0..MaxSteps
    /\ conversation = <<>>
    /\ resp = <<>>
    /\ step = 0
    /\ pending_calls = <<>>
    /\ tool_outputs = <<>>
    /\ files = [l \in {} |-> <<>>]
    /\ requests = 0
    /\ all_calls = TRUE
    /\ total_requests = 0
    /\ user_input = <<>>
    /\ session_start = conversation

LoopIdle ==
    /\ pc = "off"
    /\ namespace = {}
    /\ context_str = <<>>
    /\ skills_context = <<>>
    /\ max_steps = 0
    /\ conversation = <<>>
    /\ resp = <<>>
    /\ step = 0
    /\ pending_calls = <<>>
    /\ tool_outputs = <<>>
    /\ files = [l \in {} |-> <<>>]
    /\ requests = 0
    /\ all_calls = TRUE
    /\ total_requests = 0
    /\ user_input = <<>>
    /\ session_start = conversation

HasCall(items) == pending_of(items) # <<>>

\* Lines 281-288: a user message starts a turn; it is appended and the first
\* model request is made.
UserTurn ==
    /\ pc = "prompt"
    /\ total_requests < MaxRequests
    /\ user_input' = UserText
    /\ conversation' = Append(conversation, [role |-> "user", content |-> user_input'])
    /\ \E r \in Responses :
        /\ resp' = r
        /\ all_calls' = HasCall(r)
    /\ step' = 0
    /\ requests' = 1
    /\ total_requests' = total_requests + 1
    /\ pc' = "loop"
    /\ UNCHANGED <<namespace, context_str, skills_context, max_steps, pending_calls,
                   tool_outputs, files, session_start>>

\* Lines 290-406: one iteration of the tool loop on a response that holds
\* tool calls: the raw items are appended, the calls are dispatched, the
\* results are appended and the next request is made.  An exception raised
\* by a tool ends the process.
ToolRound ==
    /\ pc = "loop"
    /\ step < loop_bound(max_steps)
    /\ HasCall(resp)
    /\ total_requests < MaxRequests
    /\ LET calls == pending_of(resp)
           r == dispatch(files, calls, <<>>)
       IN  /\ pending_calls' = calls
           /\ tool_outputs' = r.outs
           /\ files' = r.fs
           /\ IF r.raised
              THEN /\ conversation' = conversation \o DictsOf(resp)
                   /\ pc' = "aborted"
                   /\ UNCHANGED <<resp, step, requests, all_calls, total_requests>>
              ELSE /\ conversation' = conversation \o DictsOf(resp) \o r.outs
                   /\ \E nr \in Responses :
                       /\ resp' = nr
                       /\ all_calls' = (all_calls /\ HasCall(nr))
                   /\ step' = step + 1
                   /\ requests' = requests + 1
                   /\ total_requests' = total_requests + 1
                   /\ pc' = "loop"
    /\ UNCHANGED <<namespace, context_str, skills_context, max_steps, user_input,
                   session_start>>

\* A variant of the end of the turn that appends the raw items of the last
\* response before the assistant message.
FinishTurn_appends_raw ==
    /\ pc = "loop"
    /\ (step >= loop_bound(max_steps) \/ ~HasCall(resp))
    /\ conversation' = Append(conversation \o DictsOf(resp),
           [role |-> "assistant", content |-> final_text_of(resp, <<>>)])
    /\ pending_calls' = IF step < loop_bound(max_steps) THEN <<>> ELSE pending_calls
    /\ pc' = "prompt"
    /\ UNCHANGED <<namespace, context_str, skills_context, max_steps, resp, step,
                   tool_outputs, files, requests, all_calls, total_requests,
                   user_input, session_start>>

\* A variant of the end of the turn that puts the assistant message in the
\* place of the last item of the conversation.
FinishTurn_replaces_last ==
    /\ pc = "loop"
    /\ (step >= loop_bound(max_steps) \/ ~HasCall(resp))
    /\ conversation' = Append(SubSeq(conversation, 1, Len(conversation) - 1),
           [role |-> "assistant", content |-> final_text_of(resp, <<>>)])
    /\ pending_calls' = IF step < loop_bound(max_steps) THEN <<>> ELSE pending_calls
    /\ pc' = "prompt"
    /\ UNCHANGED <<namespace, context_str, skills_context, max_steps, resp, step,
                   tool_outputs, files, requests, all_calls, total_requests,
                   user_input, session_start>>

\* Lines 313-314 and 408-425: the turn ends when the response holds no tool
\* call or the loop has run max_steps times; the final text is appended as
\* the assistant message.
FinishTurn ==
    /\ pc = "loop"
    /\ (step >= loop_bound(max_steps) \/ ~HasCall(resp))
    /\ conversation' = Append(conversation,
           [role |-> "assistant", content |-> final_text_of(resp, <<>>)])
    /\ pending_calls' = IF step < loop_bound(max_steps) THEN <<>> ELSE pending_calls
    /\ pc' = "prompt"
    /\ UNCHANGED <<namespace, context_str, skills_context, max_steps, resp, step,
                   tool_outputs, files, requests, all_calls, total_requests,
                   user_input, session_start>>

\* Lines 272-279: `clear`.
Clear ==
    /\ pc = "prompt"
    /\ user_input' = CmdClear
    /\ conversation' = cleared(conversation, context_str, skills_context)
    /\ UNCHANGED <<pc, namespace, context_str, skills_context, max_steps, resp, step,
                   pending_calls, tool_outputs, files, requests, all_calls,
                   total_requests, session_start>>

\* Lines 268-270: `exit`, `quit` or `q` (and end of input, lines 259-260).
Exit ==
    /\ pc = "prompt"
    /\ user_input' = CmdExit
    /\ pc' = "exited"
    /\ UNCHANGED <<namespace, context_str, skills_context, max_steps, conversation, resp,
                   step, pending_calls, tool_outputs, files, requests,
                   all_calls, total_requests, session_start>>

(***************************************************************************)
(* Python string operations used by the context assembler.                 *)
(***************************************************************************)
Whitespace == {" ", "\n", "\t"}

\* str.lstrip() / str.rstrip() / str.strip() on whitespace
RECURSIVE lstrip(_)
lstrip(s) == IF s # <<>> /\ Head(s) \in Whitespace THEN lstrip(Tail(s)) ELSE s

RECURSIVE rstrip(_)
rstrip(s) ==
    IF s # <<>> /\ s[Len(s)] \in Whitespace THEN rstrip(SubSeq(s, 1, Len(s) - 1)) ELSE s

strip(s) == rstrip(lstrip(s))

\* str.strip(c) for one character c
RECURSIVE strip_char(_, _)
strip_char(s, c) ==
    IF s # <<>> /\ Head(s) = c THEN strip_char(Tail(s), c)
    ELSE IF s # <<>> /\ s[Len(s)] = c THEN strip_char(SubSeq(s, 1, Len(s) - 1), c)
    ELSE s

\* str.lower() on the letters of the model
LowerChar(c) ==
    CASE c = "S" -> "s" [] c = "K" -> "k" [] c = "I" -> "i" [] c = "L" -> "l"
      [] c = "N" -> "n" [] c = "F" -> "f" [] OTHER -> c

lower(s) == [i \in 1..Len(s) |-> LowerChar(s[i])]

\* str.splitlines() for texts whose only line boundary is "\n"
RECURSIVE splitlines(_, _)
splitlines(s, cur) ==
    IF s = <<>> THEN (IF cur = <<>> THEN <<>> ELSE <<cur>>)
    ELSE IF Head(s) = "\n" THEN <<cur>> \o splitlines(Tail(s), <<>>)
    ELSE splitlines(Tail(s), Append(cur, Head(s)))

\* line.split(":", 1)[1]: what follows the first ":" of a line that has one
RECURSIVE after_colon(_)
after_colon(s) == IF Head(s) = ":" THEN Tail(s) ELSE after_colon(Tail(s))

\* The characters of the model in code-point order, for list.sort().
CharOrder == <<"\n", " ", "\"", "-", ".", "/", ":", "F", "I", "K", "L", "N", "S",
               "a", "b", "c", "d", "e", "f", "i", "k", "l", "m", "n", "o", "s",
               "t", "w", "x">>
Code(c) == CHOOSE i \in 1..Len(CharOrder) : CharOrder[i] = c

\* a < b for Python strings
RECURSIVE StrLess(_, _)
StrLess(a, b) ==
    IF b = <<>> THEN FALSE
    ELSE IF a = <<>> THEN TRUE
    ELSE IF Head(a) = Head(b) THEN StrLess(Tail(a), Tail(b))
    ELSE Code(Head(a)) < Code(Head(b))

\* list.sort() on strings
RECURSIVE InsertSorted(_, _)
InsertSorted(x, l) ==
    IF l = <<>> THEN <<x>>
    ELSE IF StrLess(Head(l), x) \/ Head(l) = x THEN <<Head(l)>> \o InsertSorted(x, Tail(l))
    ELSE <<x>> \o l

RECURSIVE sorted(_)
sorted(l) == IF l = <<>> THEN <<>> ELSE InsertSorted(Head(l), sorted(Tail(l)))

(***************************************************************************)
(* Context assembler: src/common.py, src/personality.py                    *)
(***************************************************************************)
\* The files a workspace tree can hold, in the order os.walk meets them.
PathSkillB == <<"s", "/", "b", "/", "s", "k", "i", "l", "l", ".", "m", "d">>
PathNotes == <<"s", "/", "a", "/", "n", "o", "t", "e", ".", "m", "d">>
PathSkillA == <<"s", "/", "a", "/", "S", "K", "I", "L", "L", ".", "m", "d">>
WalkOrder == <<PathSkillB, PathNotes, PathSkillA>>
TreePaths == {WalkOrder[i] : i \in 1..Len(WalkOrder)}
SkillsDir == <<"s", "/">>

\* The texts a file can hold: a skill with a frontmatter name, a bare line.
TextNamed == <<"-", "-", "-", "\n", "n", "a", "m", "e", ":", " ", "\"", "F", "o", "\"",
               "\n", "-", "-", "-", "\n", "x">>
TextPlain == <<"x">>

\* A path of the tree is absent, present but unreadable (open or decoding
\* fails), or a readable file with a text.
FileStates ==
    {[exists |-> FALSE, readable |-> FALSE, text |-> <<>>],
     [exists |-> TRUE, readable |-> FALSE, text |-> <<>>],
     [exists |-> TRUE, readable |-> TRUE, text |-> TextNamed],
     [exists |-> TRUE, readable |-> TRUE, text |-> TextPlain]}

\* read_file inside the builders' try block: the text, or an exception.
ctx_read(tr, rel) ==
    LET key == Drop(safe_join(WorkspaceRoot, rel), Len(WorkspaceRoot) + 1) IN
    IF key \in DOMAIN tr /\ tr[key].exists /\ tr[key].readable
    THEN [raised |-> FALSE, text |-> tr[key].text]
    ELSE [raised |-> TRUE, text |-> <<>>]

\* The last component of a path.
basename(path) ==
    LET cs == Components(path, <<>>) IN IF cs = <<>> THEN <<>> ELSE cs[Len(cs)]

SkillFileName == <<"S", "K", "I", "L", "L", ".", "m", "d">>
SkillFileNameLower == <<"s", "k", "i", "l", "l", ".", "m", "d">>

\* find_skill_markdowns(skills_root_abs): the files below the root named
\* SKILL.md in any case, as absolute paths, sorted.
RECURSIVE walk_hits(_, _, _)
walk_hits(tr, root, order) ==
    IF order = <<>> THEN <<>>
    ELSE LET rel == Head(order)
             fn == basename(rel)
             abs == os_path_join(WorkspaceRoot, rel)
         IN  (IF tr[rel].exists /\ IsPrefix(root, abs)
                 /\ (fn = SkillFileName \/ lower(fn) = SkillFileNameLower)
              THEN <<abs>> ELSE <<>>)
             \o walk_hits(tr, root, Tail(order))

find_skill_markdowns(tr, root) == sorted(walk_hits(tr, root, WalkOrder))

\* os.path.isdir(skills_root_abs): some file of the tree lies below it.
isdir(tr, root) ==
    \E rel \in DOMAIN tr : tr[rel].exists /\ IsPrefix(root, os_path_join(WorkspaceRoot, rel))

\* os.path.relpath(abs_path, workspace_dir) for a path below the workspace
relpath_of(abs) == Drop(abs, Len(WorkspaceRoot) + 1)

ScanWindow == 2000
Delimiter == <<"-", "-", "-">>
NameKey == <<"n", "a", "m", "e", ":">>

\* The index of the first line in from..to-1 that satisfies the delimiter
\* test, 0 when there is none (lines 68-74).
RECURSIVE find_end(_, _, _)
find_end(lines, from, to) ==
    IF from >= to THEN 0
    ELSE IF strip(lines[from + 1]) = Delimiter THEN from
    ELSE find_end(lines, from + 1, to)

\* Lines 75-79: the value of the first name: line in 1..end-1.
RECURSIVE find_name(_, _, _)
find_name(lines, i, end) ==
    IF i >= end THEN <<>>
    ELSE LET line == strip(lines[i + 1]) IN
         IF IsPrefix(NameKey, lower(line))
         THEN strip_char(strip_char(strip(after_colon(line)), "\""), "'")
         ELSE find_name(lines, i + 1, end)

\* A variant that looks for the name: line in the whole text after the
\* first line, not only before the closing delimiter.
extract_frontmatter_name_any_line(md_text) ==
    LET lines == splitlines(md_text, <<>>) IN
    IF lines = <<>> \/ strip(lines[1]) # Delimiter THEN <<>>
    ELSE LET n == IF Len(lines) < ScanWindow THEN Len(lines) ELSE ScanWindow
             end == find_end(lines, 1, n)
         IN  IF end = 0 THEN <<>> ELSE find_name(lines, 1, Len(lines))

\* extract_frontmatter_name(md_text); line i of the code is lines[i + 1].
extract_frontmatter_name(md_text) ==
    LET lines == splitlines(md_text, <<>>) IN
    IF lines = <<>> \/ strip(lines[1]) # Delimiter THEN <<>>
    ELSE LET n == IF Len(lines) < ScanWindow THEN Len(lines) ELSE ScanWindow
             end == find_end(lines, 1, n)
         IN  IF end = 0 THEN <<>> ELSE find_name(lines, 1, end)

\* Lengths of the fixed parts of the markers and of the introductions.
Unnamed == <<"(", "u", "n", "n", "a", "m", "e", "d", ")">>
SkillHeaderFixed == 31
SkillFooterFixed == 28
ContextHeaderFixed == 30
ContextFooterFixed == 27
PersonalityHeaderFixed == 34
PersonalityFooterFixed == 31
SkillsIntroLen == 212
ContextIntroLen == 173
PersonalityIntroLen == 193

\* A returned text is a sequence of segments: the introduction, then one
\* segment per chunk with the length of header + text + footer.
Intro(n) == [seg |-> "intro", path |-> <<>>, name |-> <<>>, text |-> <<>>, len |-> n]
Chunk(path, name, text, n) ==
    [seg |-> "chunk", path |-> path, name |-> name, text |-> text, len |-> n]

RECURSIVE StrLen(_)
StrLen(segs) == IF segs = <<>> THEN 0 ELSE Head(segs).len + StrLen(Tail(segs))

\* Lines 105-108: header + text + footer of a skill.
skill_addition(rel, name, text) ==
    LET shown == IF name # <<>> THEN name ELSE Unnamed IN
    Chunk(rel, name, text,
          (SkillHeaderFixed + Len(shown) + Len(rel)) + Len(text)
          + (SkillFooterFixed + Len(shown) + Len(rel)))

\* common.py lines 150-153
context_addition(rel, text) ==
    Chunk(rel, <<>>, text,
          (ContextHeaderFixed + Len(rel)) + Len(text) + (ContextFooterFixed + Len(rel)))

\* personality.py lines 40-43
personality_addition(rel, text) ==
    Chunk(rel, <<>>, text,
          (PersonalityHeaderFixed + Len(rel)) + Len(text)
          + (PersonalityFooterFixed + Len(rel)))

\* A variant of the skills loop that steps over a chunk that does not fit
\* and goes on with the next file.
RECURSIVE skills_loop_continue(_, _, _, _, _, _)
skills_loop_continue(tr, paths, budget, used, chunks, meta) ==
    IF paths = <<>> THEN [chunks |-> chunks, meta |-> meta]
    ELSE LET rel_path == relpath_of(Head(paths))
             r == ctx_read(tr, rel_path)
         IN  IF r.raised
             THEN skills_loop_continue(tr, Tail(paths), budget, used, chunks, meta)
             ELSE LET name == extract_frontmatter_name(r.text)
                      meta1 == Append(meta, [path |-> rel_path, name |-> name])
                      addition == skill_addition(rel_path, name, r.text)
                  IN  IF used + addition.len > budget
                      THEN skills_loop_continue(tr, Tail(paths), budget, used,
                                                chunks, meta1)
                      ELSE skills_loop_continue(tr, Tail(paths), budget,
                               used + addition.len, Append(chunks, addition), meta1)

\* A variant of the skills loop that records the metadata entry after the
\* budget test, as build_context does.
RECURSIVE skills_loop_meta_after(_, _, _, _, _, _)
skills_loop_meta_after(tr, paths, budget, used, chunks, meta) ==
    IF paths = <<>> THEN [chunks |-> chunks, meta |-> meta]
    ELSE LET rel_path == relpath_of(Head(paths))
             r == ctx_read(tr, rel_path)
         IN  IF r.raised
             THEN skills_loop_meta_after(tr, Tail(paths), budget, used, chunks, meta)
             ELSE LET name == extract_frontmatter_name(r.text)
                      meta1 == Append(meta, [path |-> rel_path, name |-> name])
                      addition == skill_addition(rel_path, name, r.text)
                  IN  IF used + addition.len > budget
                      THEN [chunks |-> chunks, meta |-> meta]
                      ELSE skills_loop_meta_after(tr, Tail(paths), budget,
                               used + addition.len, Append(chunks, addition), meta1)

\* common.py lines 95-113: the loop of build_skills_context.
RECURSIVE skills_loop(_, _, _, _, _, _)
skills_loop(tr, paths, budget, used, chunks, meta) ==
    IF paths = <<>> THEN [chunks |-> chunks, meta |-> meta]
    ELSE LET rel_path == relpath_of(Head(paths))
             r == ctx_read(tr, rel_path)
         IN  IF r.raised
             THEN skills_loop(tr, Tail(paths), budget, used, chunks, meta)
             ELSE LET name == extract_frontmatter_name(r.text)
                      meta1 == Append(meta, [path |-> rel_path, name |-> name])
                      addition == skill_addition(rel_path, name, r.text)
                  IN  IF used + addition.len > budget
                      THEN [chunks |-> chunks, meta |-> meta1]
                      ELSE skills_loop(tr, Tail(paths), budget,
                               used + addition.len, Append(chunks, addition), meta1)

\* build_skills_context(workspace_dir, skills_dir, max_chars_total)
build_skills_context(tr, skills_dir, budget) ==
    LET skills_root_abs == safe_join(WorkspaceRoot, skills_dir) IN
    IF ~isdir(tr, skills_root_abs) THEN [context |-> <<>>, meta |-> <<>>]
    ELSE LET l == skills_loop(tr, find_skill_markdowns(tr, skills_root_abs),
                              budget, 0, <<>>, <<>>)
         IN  IF l.chunks = <<>> THEN [context |-> <<>>, meta |-> l.meta]
             ELSE [context |-> <<Intro(SkillsIntroLen)>> \o l.chunks, meta |-> l.meta]

\* A variant of the loop of build_context that stops at a file it cannot
\* read.
RECURSIVE context_loop_stops_on_error(_, _, _, _, _, _)
context_loop_stops_on_error(tr, paths, budget, used, chunks, meta) ==
    IF paths = <<>> THEN [chunks |-> chunks, meta |-> meta]
    ELSE LET rel_path == Head(paths)
             r == ctx_read(tr, rel_path)
         IN  IF r.raised
             THEN [chunks |-> chunks, meta |-> meta]
             ELSE LET addition == context_addition(rel_path, r.text) IN
                  IF used + addition.len > budget
                  THEN [chunks |-> chunks, meta |-> meta]
                  ELSE context_loop_stops_on_error(tr, Tail(paths), budget,
                           used + addition.len, Append(chunks, addition),
                           Append(meta, [path |-> rel_path, chars |-> Len(r.text)]))

\* common.py lines 144-159: the loop of build_context.
RECURSIVE context_loop(_, _, _, _, _, _)
context_loop(tr, paths, budget, used, chunks, meta) ==
    IF paths = <<>> THEN [chunks |-> chunks, meta |-> meta]
    ELSE LET rel_path == Head(paths)
             r == ctx_read(tr, rel_path)
         IN  IF r.raised
             THEN context_loop(tr, Tail(paths), budget, used, chunks, meta)
             ELSE LET addition == context_addition(rel_path, r.text) IN
                  IF used + addition.len > budget
                  THEN [chunks |-> chunks, meta |-> meta]
                  ELSE context_loop(tr, Tail(paths), budget, used + addition.len,
                           Append(chunks, addition),
                           Append(meta, [path |-> rel_path, chars |-> Len(r.text)]))

\* build_context(workspace_dir, files, max_chars_total)
build_context(tr, fs, budget) ==
    LET l == context_loop(tr, fs, budget, 0, <<>>, <<>>) IN
    IF l.chunks = <<>> THEN [context |-> <<>>, meta |-> l.meta]
    ELSE [context |-> <<Intro(ContextIntroLen)>> \o l.chunks, meta |-> l.meta]

\* personality.py lines 34-49: the loop of build_personality_context.
RECURSIVE personality_loop(_, _, _, _, _, _)
personality_loop(tr, paths, budget, used, chunks, meta) ==
    IF paths = <<>> THEN [chunks |-> chunks, meta |-> meta]
    ELSE LET rel_path == Head(paths)
             r == ctx_read(tr, rel_path)
         IN  IF r.raised
             THEN personality_loop(tr, Tail(paths), budget, used, chunks, meta)
             ELSE LET addition == personality_addition(rel_path, r.text) IN
                  IF used + addition.len > budget
                  THEN [chunks |-> chunks, meta |-> meta]
                  ELSE personality_loop(tr, Tail(paths), budget, used + addition.len,
                           Append(chunks, addition),
                           Append(meta, [path |-> rel_path, chars |-> Len(r.text)]))

\* build_personality_context(workspace_dir, files, max_chars_total)
build_personality_context(tr, fs, budget) ==
    LET l == personality_loop(tr, fs, budget, 0, <<>>, <<>>) IN
    IF l.chunks = <<>> THEN [context |-> <<>>, meta |-> l.meta]
    ELSE [context |-> <<Intro(PersonalityIntroLen)>> \o l.chunks, meta |-> l.meta]

\* The ordered lists of distinct tree paths a caller can pass as `files`.
FileLists ==
    {l \in SeqsUpTo(TreePaths, MaxFiles) :
        \A i, j \in 1..Len(l) : i # j => l[i] # l[j]}

CtxInit ==
    /\ ctx_pc = "call"
    /\ ctx_fn \in {"skills", "context", "personality"}
    /\ tree \in [TreePaths -> FileStates]
    /\ ctx_files \in IF ctx_fn = "skills" THEN {<<>>} ELSE FileLists
    /\ max_chars_total \in 0..MaxBudget
    /\ ctx_result = [context |-> <<>>, meta |-> <<>>]

CtxIdle ==
    /\ ctx_pc = "off"
    /\ ctx_fn = "skills"
    /\ tree = [p \in TreePaths |-> [exists |-> FALSE, readable |-> FALSE, text |-> <<>>]]
    /\ ctx_files = <<>>
    /\ max_chars_total = 0
    /\ ctx_result = [context |-> <<>>, meta |-> <<>>]

BuildSkillsContext ==
    /\ ctx_pc = "call"
    /\ ctx_fn = "skills"
    /\ ctx_result' = build_skills_context(tree, SkillsDir, max_chars_total)
    /\ ctx_pc' = "done"
    /\ UNCHANGED <<ctx_fn, tree, ctx_files, max_chars_total>>

BuildContext ==
    /\ ctx_pc = "call"
    /\ ctx_fn = "context"
    /\ ctx_result' = build_context(tree, ctx_files, max_chars_total)
    /\ ctx_pc' = "done"
    /\ UNCHANGED <<ctx_fn, tree, ctx_files, max_chars_total>>

BuildPersonalityContext ==
    /\ ctx_pc = "call"
    /\ ctx_fn = "personality"
    /\ ctx_result' = build_personality_context(tree, ctx_files, max_chars_total)
    /\ ctx_pc' = "done"
    /\ UNCHANGED <<ctx_fn, tree, ctx_files, max_chars_total>>

\* The lines a skill text of the model is made of: the delimiter, the
\* delimiter followed by a space, four dashes, a name: line with a value in
\* double quotes, an indented Name: line with a value in single quotes, a
\* line that holds name: but does not begin with it, and the empty line.
LineDelim == <<"-", "-", "-">>
LineDelimSpace == <<"-", "-", "-", " ">>
LineDashes == <<"-", "-", "-", "-">>
LineName == <<"n", "a", "m", "e", ":", " ", "\"", "F", "o", "\"">>
LineNameUpper == <<" ", "N", "a", "m", "e", ":", "'", "b", "'">>
LineOther == <<"x", ":", " ", "n", "a", "m", "e", ":", "a">>
LineEmpty == <<>>
TextLines == {LineDelim, LineDelimSpace, LineDashes, LineName, LineNameUpper,
              LineOther, LineEmpty}

\* "\n".join(lines)
RECURSIVE JoinLines(_)
JoinLines(ls) ==
    IF ls = <<>> THEN <<>>
    ELSE IF Len(ls) = 1 THEN ls[1]
    ELSE ls[1] \o <<"\n">> \o JoinLines(Tail(ls))

\* The texts of at most MaxLines lines, with and without a final newline.
SkillTexts ==
    {JoinLines(ls) : ls \in SeqsUpTo(TextLines, MaxLines)}
    \cup {JoinLines(ls) \o <<"\n">> : ls \in SeqsUpTo(TextLines, MaxLines)}

FmInit ==
    /\ fm_pc = "call"
    /\ fm_text \in SkillTexts
    /\ fm_name = <<>>

FmIdle ==
    /\ fm_pc = "off"
    /\ fm_text = <<>>
    /\ fm_name = <<>>

\* One call of extract_frontmatter_name(fm_text).
ExtractName ==
    /\ fm_pc = "call"
    /\ fm_name' = extract_frontmatter_name(fm_text)
    /\ fm_pc' = "done"
    /\ UNCHANGED fm_text

(***************************************************************************)
(* Eval harness: src/eval.py                                               *)
(***************************************************************************)
\* s contains p as a contiguous run of characters (Python's `p in s`).
Contains(s, p) ==
    \E off \in 0..(Len(s) - Len(p)) : SubSeq(s, off + 1, off + Len(p)) = p

\* The characters re.escape puts a backslash before (those of the model).
RegexSpecial == {".", " ", "-", "\\"}

\* A variant of re.escape that leaves the pattern as it is.
re_escape_none(pattern) == pattern

\* re.escape(pattern)
RECURSIVE re_escape(_)
re_escape(pattern) ==
    IF pattern = <<>> THEN <<>>
    ELSE (IF Head(pattern) \in RegexSpecial
          THEN <<"\\", Head(pattern)>> ELSE <<Head(pattern)>>)
         \o re_escape(Tail(pattern))

\* re.compile(pattern) for patterns made of literals, escaped characters
\* and ".": the list of atoms, each a literal character or the wildcard.
RECURSIVE re_compile(_)
re_compile(pattern) ==
    IF pattern = <<>> THEN <<>>
    ELSE IF Head(pattern) = "\\" /\ Len(pattern) >= 2
         THEN <<[any |-> FALSE, ch |-> pattern[2]]>> \o re_compile(Drop(pattern, 2))
    ELSE IF Head(pattern) = "."
         THEN <<[any |-> TRUE, ch |-> "."]>> \o re_compile(Tail(pattern))
    ELSE <<[any |-> FALSE, ch |-> Head(pattern)]>> \o re_compile(Tail(pattern))

\* rx.search(cmd): the atoms match at some offset; the wildcard matches any
\* character but a newline.
re_search(rx, cmd) ==
    \E off \in 0..(Len(cmd) - Len(rx)) :
        \A i \in 1..Len(rx) :
            IF rx[i].any THEN cmd[off + i] # "\n" ELSE cmd[off + i] = rx[i].ch

\* trace_contains_command(tool_calls, pattern)
trace_contains_command(tool_calls, pattern) ==
    LET rx == re_compile(pattern) IN
    \E i \in 1..Len(tool_calls) :
        /\ Get(tool_calls[i], "type", None) = "shell"
        /\ re_search(rx, Get(tool_calls[i], "command", <<>>))

SkillMd == <<"s", "k", "i", "l", "l", ".", "m", "d">>
ScriptsDir == <<"s", "c", "r", "i", "p", "t", "s", "/">>

\* A variant of the detector that compares the path as it is written.
skill_was_used_exact_case(tool_calls) ==
    \E i \in 1..Len(tool_calls) :
        \/ /\ Get(tool_calls[i], "type", None) = "read"
           /\ Contains(Get(tool_calls[i], "path", <<>>), SkillMd)
        \/ /\ Get(tool_calls[i], "type", None) = "shell"
           /\ Contains(Get(tool_calls[i], "command", <<>>), ScriptsDir)

\* skill_was_used(tool_calls)
skill_was_used(tool_calls) ==
    \E i \in 1..Len(tool_calls) :
        \/ /\ Get(tool_calls[i], "type", None) = "read"
           /\ Contains(lower(Get(tool_calls[i], "path", <<>>)), SkillMd)
        \/ /\ Get(tool_calls[i], "type", None) = "shell"
           /\ Contains(Get(tool_calls[i], "command", <<>>), ScriptsDir)

\* file_exists(workspace, relpath): os.path.exists(os.path.join(...)) on
\* the set of file locations the run left; a directory exists too.
file_exists(locs, rp) ==
    LET loc == Resolve(os_path_join(WorkspaceRoot, rp)) IN
    \/ loc \in locs
    \/ IsPrefix(loc, Resolve(WorkspaceRoot))
    \/ \E f \in locs : IsPrefix(loc, f)

\* run_agent(prompt, workdir, skills_dir): the RunResult, or an exception
\* when the runner exits nonzero (line 51), prints no JSON (line 56) or
\* prints JSON without workspace_dir (line 60).
run_agent(run) ==
    IF run.status = "ok"
    THEN [raised |-> FALSE, tool_calls |-> run.tool_calls,
          final_text |-> run.final_text, workspace |-> run.workspace]
    ELSE [raised |-> TRUE, tool_calls |-> <<>>, final_text |-> <<>>, workspace |-> {}]

ExcerptLen == 400

\* Lines 108-120: the routing check.
routing_checks(expect, tool_calls) ==
    IF "skill_used" \in DOMAIN expect
    THEN LET used == skill_was_used(tool_calls) IN
         <<[name |-> "routing.skill_used", passed |-> (used = expect["skill_used"]),
            got |-> used, want |-> expect["skill_used"]]>>
    ELSE <<>>

\* Lines 123-128: one check per must_run pattern.
RECURSIVE must_run_checks(_, _)
must_run_checks(patterns, tool_calls) ==
    IF patterns = <<>> THEN <<>>
    ELSE <<[name |-> "process.must_run",
            passed |-> trace_contains_command(tool_calls, re_escape(Head(patterns))),
            pattern |-> Head(patterns)]>>
         \o must_run_checks(Tail(patterns), tool_calls)

\* Lines 130-135: one check per must_not_run pattern.
RECURSIVE must_not_run_checks(_, _)
must_not_run_checks(patterns, tool_calls) ==
    IF patterns = <<>> THEN <<>>
    ELSE <<[name |-> "process.must_not_run",
            passed |-> ~trace_contains_command(tool_calls, re_escape(Head(patterns))),
            pattern |-> Head(patterns)]>>
         \o must_not_run_checks(Tail(patterns), tool_calls)

\* Lines 138-141: one check per expected file.
RECURSIVE file_checks(_, _)
file_checks(fpaths, locs) ==
    IF fpaths = <<>> THEN <<>>
    ELSE <<[name |-> "outcome.file_exists",
            passed |-> file_exists(locs, Head(fpaths)), file |-> Head(fpaths)]>>
         \o file_checks(Tail(fpaths), locs)

\* `ok = ok and passed` over the checks, starting from True.
RECURSIVE all_passed(_)
all_passed(checks) ==
    IF checks = <<>> THEN TRUE ELSE Head(checks).passed /\ all_passed(Tail(checks))

\* A variant of the checks list that puts the outcome checks before the
\* process checks.
checks_of_files_first(expect, run) ==
    routing_checks(expect, run.tool_calls)
    \o file_checks(Get(expect, "files", <<>>), run.workspace)
    \o must_run_checks(Get(expect, "must_run", <<>>), run.tool_calls)
    \o must_not_run_checks(Get(expect, "must_not_run", <<>>), run.tool_calls)

\* Lines 105-141: the checks list in the order the code appends to it.
checks_of(expect, run) ==
    routing_checks(expect, run.tool_calls)
    \o must_run_checks(Get(expect, "must_run", <<>>), run.tool_calls)
    \o must_not_run_checks(Get(expect, "must_not_run", <<>>), run.tool_calls)
    \o file_checks(Get(expect, "files", <<>>), run.workspace)

NoResult == [raised |-> FALSE, returned |-> FALSE]

\* eval_case(case, workdir, skills_dir): the result dict, or the exception
\* run_agent raised.
eval_case(case, runner) ==
    LET expect == Get(case, "expect", EmptyDict)
        run == run_agent(runner)
    IN  IF run.raised THEN [raised |-> TRUE, returned |-> FALSE]
        ELSE LET checks == checks_of(expect, run) IN
             [raised |-> FALSE, returned |-> TRUE,
              id |-> case.id, passed |-> all_passed(checks), checks |-> checks,
              final_text_excerpt |->
                  SubSeq(run.final_text, 1,
                         IF Len(run.final_text) < ExcerptLen
                         THEN Len(run.final_text) ELSE ExcerptLen)]

\* The attributes of the namespace parse_args returns (lines 152-163).
ArgsNamespace == {"skill_root", "skills_dir"}

\* A variant of the comprehension that steps over a case whose evaluation
\* raised and goes on with the next one.
RECURSIVE eval_all_skips_failed(_, _, _, _, _)
eval_all_skips_failed(ns, cs, rs, acc, calls) ==
    IF cs = <<>> THEN [raised |-> FALSE, results |-> acc, calls |-> calls]
    ELSE IF "workdir" \notin ns THEN [raised |-> TRUE, results |-> acc, calls |-> calls]
    ELSE LET r == eval_case(Head(cs), Head(rs)) IN
         IF r.raised
         THEN eval_all_skips_failed(ns, Tail(cs), Tail(rs), acc, calls + 1)
         ELSE eval_all_skips_failed(ns, Tail(cs), Tail(rs), Append(acc, r), calls + 1)

\* Line 166: the list comprehension; args.workdir is evaluated for each
\* case before eval_case is called, and raises when the namespace has no
\* such attribute.  Every call of eval_case starts one runner (line 50); an
\* exception of eval_case ends the comprehension.
RECURSIVE eval_all(_, _, _, _, _)
eval_all(ns, cs, rs, acc, calls) ==
    IF cs = <<>> THEN [raised |-> FALSE, results |-> acc, calls |-> calls]
    ELSE IF "workdir" \notin ns THEN [raised |-> TRUE, results |-> acc, calls |-> calls]
    ELSE LET r == eval_case(Head(cs), Head(rs)) IN
         IF r.raised THEN [raised |-> TRUE, results |-> acc, calls |-> calls + 1]
         ELSE eval_all(ns, Tail(cs), Tail(rs), Append(acc, r), calls + 1)

\* sum(1 for r in results if r["passed"])
RECURSIVE count_passed(_)
count_passed(results) ==
    IF results = <<>> THEN 0
    ELSE (IF Head(results).passed THEN 1 ELSE 0) + count_passed(Tail(results))

NoReport == [emitted |-> FALSE, passed |-> 0, total |-> 0, results |-> <<>>]

\* The trace entries and patterns of the model.
PatLiteral == <<"a">>
PatDot == <<"a", ".">>
Patterns == {PatLiteral, PatDot}
CmdDot == <<"a", ".">>
CmdPlain == <<"a", "a">>
TraceEntries ==
    {[type |-> "shell", command |-> CmdDot],
     [type |-> "shell", command |-> CmdPlain],
     [type |-> "write", path |-> <<"h">>, command |-> CmdDot],
     [type |-> "read", path |-> PathSkillA],
     [type |-> "shell", command |-> ScriptsDir \o <<"x">>],
     [type |-> "write", path |-> PathSkillB, command |-> ScriptsDir]}

FileH == <<"h">>
LocH == <<<<"w">>, <<"h">>>>

\* Lists of length 1..n over S.
Lists(S, n) == UNION {[1..k -> S] : k \in 1..n}

\* An optional key of a dict: absent, or present with one of the values.
Optional(key, values) == {EmptyDict} \cup {key :> v : v \in values}

Expects ==
    {su @@ mr @@ mn @@ fl :
        su \in Optional("skill_used", BOOLEAN),
        mr \in Optional("must_run", Lists(Patterns, MaxList)),
        mn \in Optional("must_not_run", Lists(Patterns, MaxList)),
        fl \in Optional("files", Lists({FileH}, MaxList))}

PromptText == <<"g", "o">>

EvalCases ==
    {[id |-> "t1", prompt |-> PromptText, expect |-> e] : e \in Expects}
    \cup {[id |-> "t0", prompt |-> PromptText]}

OkRuns ==
    {[status |-> "ok", tool_calls |-> t, final_text |-> TextOk, workspace |-> w] :
        t \in SeqsUpTo(TraceEntries, MaxTrace), w \in {{}, {LocH}}}

FailedRuns ==
    {[status |-> st, tool_calls |-> <<>>, final_text |-> <<>>, workspace |-> {}] :
        st \in {"nonzero", "badjson", "nokey"}}

\* The cases and runner behaviours of a whole batch (main).
BatchCases ==
    {[id |-> "t1", prompt |-> PromptText, expect |-> ("must_run" :> <<PatLiteral>>)],
     [id |-> "t2", prompt |-> PromptText, expect |-> ("files" :> <<FileH>>)]}

BatchRuns ==
    {[status |-> "ok", tool_calls |-> <<[type |-> "shell", command |-> CmdPlain]>>,
      final_text |-> TextOk, workspace |-> {}],
     [status |-> "ok", tool_calls |-> <<>>, final_text |-> TextOk, workspace |-> {LocH}],
     [status |-> "nonzero", tool_calls |-> <<>>, final_text |-> <<>>, workspace |-> {}],
     [status |-> "badjson", tool_calls |-> <<>>, final_text |-> <<>>, workspace |-> {}]}

EvInit ==
    /\ \/ /\ ev_pc = "call"
          /\ \E c \in EvalCases : cases = <<c>>
          /\ \E r \in OkRuns \cup FailedRuns : runs = <<r>>
       \/ /\ ev_pc = "main"
          /\ cases \in SeqsUpTo(BatchCases, MaxCases)
          /\ runs \in [1..Len(cases) -> BatchRuns]
    /\ ev_namespace = ArgsNamespace
    /\ runner_calls = 0
    /\ ev_result = NoResult
    /\ report = NoReport
    /\ exit_code = -1

EvIdle ==
    /\ ev_pc = "off"
    /\ ev_namespace = {}
    /\ runner_calls = 0
    /\ cases = <<>>
    /\ runs = <<>>
    /\ ev_result = NoResult
    /\ report = NoReport
    /\ exit_code = -1

\* A call of eval_case on one case; it starts the runner once (line 102).
EvalCase ==
    /\ ev_pc = "call"
    /\ ev_result' = eval_case(cases[1], runs[1])
    /\ runner_calls' = runner_calls + 1
    /\ ev_pc' = IF ev_result'.raised THEN "raised" ELSE "done"
    /\ UNCHANGED <<ev_namespace, cases, runs, report, exit_code>>

\* Not a step of the program: something outside src/ puts workdir on the
\* namespace between parse_args and line 166.  No argument list and no
\* code of main does this, so a run of the harness as it stands never takes
\* this step.  The step is here so that the runs of a batch past line 166
\* can be explored; only behaviours without it are runs of the program.
WorkdirIsSet ==
    /\ ev_pc = "main"
    /\ "workdir" \notin ev_namespace
    /\ ev_namespace' = ev_namespace \cup {"workdir"}
    /\ UNCHANGED <<ev_pc, runner_calls, cases, runs, ev_result, report, exit_code>>

\* Lines 165-172: main evaluates every case, prints the report and exits
\* with 0 when all passed, else 1; an uncaught exception ends the process
\* with status 1 and no report.
Main ==
    /\ ev_pc = "main"
    /\ LET all == eval_all(ev_namespace, cases, runs, <<>>, 0) IN
       /\ runner_calls' = all.calls
       /\ IF all.raised
          THEN /\ report' = NoReport
               /\ exit_code' = 1
          ELSE LET passed == count_passed(all.results)
                   total == Len(all.results)
               IN  /\ report' = [emitted |-> TRUE, passed |-> passed, total |-> total,
                                 results |-> all.results]
                   /\ exit_code' = IF passed = total THEN 0 ELSE 1
    /\ ev_pc' = "exited"
    /\ UNCHANGED <<ev_namespace, cases, runs, ev_result>>

(***************************************************************************)
(* Start of the interactive session: src/interactive.py lines 215-244      *)
(***************************************************************************)
\* The template trees a session is started on (relative path -> text):
\* nothing, a file a, and a file a next to a skill.
TextT == <<"T">>
NoTree == [p \in {} |-> <<>>]
Templates == {NoTree, PathA :> TextT, (PathA :> TextT) @@ (PathSkillA :> TextNamed)}

\* --context-files as line 228 splits it: no file, or the file a.
ContextFileArgs == {<<>>, <<PathA>>}

\* --max-skill-chars when it is not given (line 194).
DefaultMaxSkillChars == 200000

\* shutil.copytree(template, workspace_dir, dirs_exist_ok=True) into the
\* empty workspace: every file of the template, at its place below the root.
CopyTree(t) ==
    LET at(p) == Resolve(os_path_join(WorkspaceRoot, p)) IN
    [loc \in {at(p) : p \in DOMAIN t} |-> t[CHOOSE p \in DOMAIN t : at(p) = loc]]

\* The workspace as the builders of lines 222-233 read it: every path they
\* can ask for, with the text the workspace holds there.
TreeOf(fs) ==
    [p \in TreePaths \cup {PathA} |->
        LET loc == Resolve(os_path_join(WorkspaceRoot, p)) IN
        IF loc \in DOMAIN fs
        THEN [exists |-> TRUE, readable |-> TRUE, text |-> fs[loc]]
        ELSE [exists |-> FALSE, readable |-> FALSE, text |-> <<>>]]

\* Not a step of the program: something outside src/ puts skill_root on the
\* namespace between parse_args and line 220.  No argument list and no
\* code of main does this, so a run of the program as it stands never takes
\* this step and ends in Startup with pc = "crashed".  The step is here so
\* that the code of lines 222-425 can be explored at all; only behaviours
\* without it are runs of the program.
SkillRootIsSet ==
    /\ pc = "start"
    /\ "skill_root" \notin namespace
    /\ namespace' = namespace \cup {"skill_root"}
    /\ UNCHANGED <<pc, context_str, skills_context, max_steps, conversation, resp,
                   step, pending_calls, tool_outputs, files, requests, all_calls,
                   total_requests, user_input, session_start>>

\* Lines 217-244: the template is copied into the workspace, the skill
\* bundle and the context are built from the copy and the conversation gets
\* its preamble.  args.skill_root (line 220) raises AttributeError on a
\* namespace that has no such attribute, and the process ends there.
Startup ==
    /\ pc = "start"
    /\ \E t \in Templates, context_files \in ContextFileArgs :
         IF "skill_root" \notin namespace
         THEN /\ pc' = "crashed"
              /\ UNCHANGED <<context_str, skills_context, conversation, files,
                             session_start>>
         ELSE LET ws == CopyTree(t)
                  sk == build_skills_context(TreeOf(ws), SkillsDir, DefaultMaxSkillChars)
                  cx == build_context(TreeOf(ws), context_files, DefaultMaxSkillChars)
              IN  /\ files' = ws
                  /\ skills_context' = sk.context
                  /\ context_str' = cx.context
                  /\ conversation' = initial_conversation(cx.context, sk.context)
                  /\ session_start' = conversation'
                  /\ pc' = "prompt"
    /\ UNCHANGED <<namespace, max_steps, resp, step, pending_calls, tool_outputs,
                   requests, all_calls, total_requests, user_input>>

(***************************************************************************)
(* Specifications                                                          *)
(***************************************************************************)
InitPath == SjInit /\ LoopIdle /\ CtxIdle /\ EvIdle /\ FmIdle

NextPath == SafeJoin /\ UNCHANGED <<loopVars, ctxVars, evVars, fmVars>>

InitEval == EvInit /\ SjIdle /\ LoopIdle /\ CtxIdle /\ FmIdle

NextEval ==
    \/ WorkdirIsSet /\ UNCHANGED <<sjVars, loopVars, ctxVars, fmVars>>
    \/ EvalCase /\ UNCHANGED <<sjVars, loopVars, ctxVars, fmVars>>
    \/ Main /\ UNCHANGED <<sjVars, loopVars, ctxVars, fmVars>>

SpecEval == InitEval /\ [][NextEval]_vars

InitCtx == CtxInit /\ SjIdle /\ LoopIdle /\ EvIdle /\ FmIdle

NextCtx ==
    \/ BuildSkillsContext /\ UNCHANGED <<sjVars, loopVars, evVars, fmVars>>
    \/ BuildContext /\ UNCHANGED <<sjVars, loopVars, evVars, fmVars>>
    \/ BuildPersonalityContext /\ UNCHANGED <<sjVars, loopVars, evVars, fmVars>>

SpecCtx == InitCtx /\ [][NextCtx]_vars

SpecPath == InitPath /\ [][NextPath]_vars

InitName == FmInit /\ SjIdle /\ LoopIdle /\ CtxIdle /\ EvIdle

NextName == ExtractName /\ UNCHANGED <<sjVars, loopVars, ctxVars, evVars>>

SpecName == InitName /\ [][NextName]_vars

Init == LoopInit /\ SjIdle /\ CtxIdle /\ EvIdle /\ FmIdle

Next ==
    \/ SkillRootIsSet /\ UNCHANGED <<sjVars, ctxVars, evVars, fmVars>>
    \/ Startup /\ UNCHANGED <<sjVars, ctxVars, evVars, fmVars>>
    \/ UserTurn /\ UNCHANGED <<sjVars, ctxVars, evVars, fmVars>>
    \/ ToolRound /\ UNCHANGED <<sjVars, ctxVars, evVars, fmVars>>
    \/ FinishTurn /\ UNCHANGED <<sjVars, ctxVars, evVars, fmVars>>
    \/ Clear /\ UNCHANGED <<sjVars, ctxVars, evVars, fmVars>>
    \/ Exit /\ UNCHANGED <<sjVars, ctxVars, evVars, fmVars>>

Spec == Init /\ [][Next]_vars

\* The runs of the two programs as they stand: no behaviour of a session
\* leaves "start" except to "crashed", and no batch starts a runner, unless
\* the attribute that main reads was put on the namespace from outside.
AsItStands ==
    /\ "skill_root" \notin namespace => pc \in {"off", "start", "crashed"}
    /\ ("workdir" \notin ev_namespace /\ ev_pc = "exited") => runner_calls = 0

(***************************************************************************)
(* C1                                                                      *)
(***************************************************************************)
\* A turn has run to its end (the assistant message was appended).
TurnEnded == pc \in {"prompt", "exited"} /\ requests > 0

\* C1: whatever the model answers, a turn makes at most max_steps dispatch
\* rounds and at most max_steps + 1 model requests; when every response of
\* the turn held a tool call, the turn ends after exactly max_steps rounds.
C1_BoundedTurn ==
    /\ step <= max_steps
    /\ requests <= max_steps + 1
    /\ (TurnEnded /\ all_calls) => (step = max_steps /\ requests = max_steps + 1)

\* A turn in which every response held a tool call ran to the step limit.
C1_Witness ==
    /\ TurnEnded
    /\ all_calls
    /\ max_steps >= 2
    /\ step = max_steps

(***************************************************************************)
(* C2                                                                      *)
(***************************************************************************)
\* A dispatch round has been entered and the loop has not moved on.
RoundEntered == (pc = "loop" /\ step >= 1) \/ pc = "aborted"

\* The payload of a call gives a dict (it is a JSON object, or it is absent
\* or unparsable and replaced by {}).
PayloadIsDict(call) == parse_arguments(call_arguments(call)).isdict

\* C2 (as claimed): a dispatch round on k tool calls, whatever their names
\* and arguments, leaves exactly k tool results at the end of the
\* conversation, the i-th carrying the id of the i-th call.  Stated for
\* rounds whose calls all carry a payload that gives a dict.
C2_OneResultPerCall ==
    (RoundEntered /\ \A c \in 1..Len(pending_calls) : PayloadIsDict(pending_calls[c])) =>
        LET k == Len(pending_calls)
            n == Len(conversation)
        IN  /\ Len(tool_outputs) = k
            /\ n >= k
            /\ SubSeq(conversation, n - k + 1, n) = tool_outputs
            /\ \A i \in 1..Len(tool_outputs) :
                   /\ tool_outputs[i].type = "function_call_output"
                   /\ tool_outputs[i].call_id = Get(pending_calls[i], "id", None)

(***************************************************************************)
(* C4, C5, C6: the context assembler                                       *)
(***************************************************************************)
\* The candidate files of the call, in discovery order.
Candidates ==
    IF ctx_fn = "skills"
    THEN LET hits == find_skill_markdowns(tree, safe_join(WorkspaceRoot, SkillsDir))
         IN  [i \in 1..Len(hits) |-> relpath_of(hits[i])]
    ELSE ctx_files

IsReadable(p) == tree[p].exists /\ tree[p].readable

ReadableCandidates == SelectSeq(Candidates, IsReadable)

\* The whole chunk of a readable candidate.
WholeChunk(p) ==
    LET text == tree[p].text IN
    IF ctx_fn = "skills"
    THEN skill_addition(p, extract_frontmatter_name(text), text)
    ELSE IF ctx_fn = "context" THEN context_addition(p, text)
    ELSE personality_addition(p, text)

\* The summed chunk length of the first k readable candidates.
RECURSIVE PrefixLen(_)
PrefixLen(k) == IF k = 0 THEN 0 ELSE PrefixLen(k - 1) + WholeChunk(ReadableCandidates[k]).len

\* The chunks of the returned text (what follows the introduction).
Emitted == IF ctx_result.context = <<>> THEN <<>> ELSE Tail(ctx_result.context)

\* C4 (as claimed): the length of the returned context text, introduction
\* included, never exceeds the budget.
C4_WithinBudget ==
    ctx_pc = "done" => StrLen(ctx_result.context) <= max_chars_total

\* C5: the emitted chunks are the whole chunks of a prefix of the (readable)
\* candidates in discovery order, and the prefix ends at the first candidate
\* whose chunk would cross the budget: that one and all later ones are left
\* out, also a later one that would fit.
C5_ContiguousPrefix ==
    ctx_pc = "done" =>
        LET k == Len(Emitted) IN
        /\ k <= Len(ReadableCandidates)
        /\ \A i \in 1..k : Emitted[i] = WholeChunk(ReadableCandidates[i])
        /\ PrefixLen(k) <= max_chars_total
        /\ k < Len(ReadableCandidates) => PrefixLen(k + 1) > max_chars_total

\* A candidate crossed the budget and a later, smaller candidate that would
\* have fitted was left out with it.
C5_Witness ==
    /\ ctx_pc = "done"
    /\ \E j \in (Len(Emitted) + 2)..Len(ReadableCandidates) :
           PrefixLen(Len(Emitted)) + WholeChunk(ReadableCandidates[j]).len
               <= max_chars_total

\* C6 (as claimed): the metadata list of build_skills_context has one entry
\* for every discovered skill file, those at and after the budget cutoff
\* included.  Stated for discovered files that can all be read.
C6_MetaEveryDiscovered ==
    (ctx_pc = "done" /\ ctx_fn = "skills" /\ ReadableCandidates = Candidates) =>
        /\ Len(ctx_result.meta) = Len(Candidates)
        /\ \A i \in 1..Len(Candidates) : ctx_result.meta[i].path = Candidates[i]

\* The number of readable candidates up to and including the first whose
\* chunk crosses the budget (all of them when none does).
RECURSIVE UpToCutoff(_)
UpToCutoff(i) ==
    IF i > Len(ReadableCandidates) THEN Len(ReadableCandidates)
    ELSE IF PrefixLen(i) > max_chars_total THEN i
    ELSE UpToCutoff(i + 1)

\* C6 (amended): the metadata list has one entry, in discovery order, for
\* every readable skill file up to and including the first whose chunk
\* crosses the budget, and none for the files after that one.
C6_MetaUpToCutoff ==
    (ctx_pc = "done" /\ ctx_fn = "skills") =>
        LET n == UpToCutoff(1) IN
        /\ Len(ctx_result.meta) = n
        /\ \A i \in 1..n :
               ctx_result.meta[i] =
                   [path |-> ReadableCandidates[i],
                    name |-> extract_frontmatter_name(tree[ReadableCandidates[i]].text)]

\* A skill file crossed the budget: it has a metadata entry and no chunk,
\* and a readable skill file after it has neither.
C6_Witness ==
    /\ ctx_pc = "done"
    /\ ctx_fn = "skills"
    /\ Len(ctx_result.meta) = Len(Emitted) + 1
    /\ Len(ReadableCandidates) > Len(ctx_result.meta)

(***************************************************************************)
(* C7, C8, C9: the eval harness                                            *)
(***************************************************************************)
\* Some shell entry of the trace has a command that contains p literally.
LiteralHit(trace, p) ==
    \E i \in 1..Len(trace) :
        /\ Get(trace[i], "type", None) = "shell"
        /\ Contains(Get(trace[i], "command", <<>>), p)

\* C7: a must_run check for p passes iff some shell entry's command contains
\* p as a literal substring, and a must_not_run check for p on the same
\* trace passes iff that must_run check fails.
C7_LiteralSubstring ==
    ev_pc = "done" =>
        LET trace == runs[1].tool_calls
            checks == ev_result.checks
        IN  /\ \A i \in 1..Len(checks) :
                   /\ checks[i].name = "process.must_run" =>
                          (checks[i].passed <=> LiteralHit(trace, checks[i].pattern))
                   /\ checks[i].name = "process.must_not_run" =>
                          (checks[i].passed <=> ~LiteralHit(trace, checks[i].pattern))
            /\ \A i, j \in 1..Len(checks) :
                   (/\ checks[i].name = "process.must_run"
                    /\ checks[j].name = "process.must_not_run"
                    /\ checks[i].pattern = checks[j].pattern)
                   => (checks[j].passed <=> ~checks[i].passed)

\* "a." is required and forbidden on a trace whose only shell command is
\* "aa" (which "a." matches as a regular expression, not as text) and which
\* holds "a." in an entry that is not a shell entry: the must_run check
\* fails and the must_not_run check passes.
C7_Witness ==
    /\ ev_pc = "done"
    /\ runs[1].tool_calls =
           <<[type |-> "write", path |-> <<"h">>, command |-> CmdDot],
             [type |-> "shell", command |-> CmdPlain]>>
    /\ \E i, j \in 1..Len(ev_result.checks) :
           /\ ev_result.checks[i].name = "process.must_run"
           /\ ev_result.checks[i].pattern = PatDot
           /\ ~ev_result.checks[i].passed
           /\ ev_result.checks[j].name = "process.must_not_run"
           /\ ev_result.checks[j].pattern = PatDot
           /\ ev_result.checks[j].passed

\* C8: the passed flag of a case is the conjunction of its checks, and the
\* checks are, in this order: the routing check when expect has skill_used,
\* one per must_run pattern, one per must_not_run pattern, one per file.
C8_ChecksAndVerdict ==
    ev_pc = "done" =>
        LET expect == Get(cases[1], "expect", EmptyDict)
            checks == ev_result.checks
            su == IF "skill_used" \in DOMAIN expect THEN 1 ELSE 0
            mr == Get(expect, "must_run", <<>>)
            mn == Get(expect, "must_not_run", <<>>)
            fl == Get(expect, "files", <<>>)
        IN  /\ ev_result.passed <=> (\A i \in 1..Len(checks) : checks[i].passed)
            /\ Len(checks) = su + Len(mr) + Len(mn) + Len(fl)
            /\ su = 1 => checks[1].name = "routing.skill_used"
            /\ \A i \in 1..Len(mr) :
                   /\ checks[su + i].name = "process.must_run"
                   /\ checks[su + i].pattern = mr[i]
            /\ \A i \in 1..Len(mn) :
                   /\ checks[su + Len(mr) + i].name = "process.must_not_run"
                   /\ checks[su + Len(mr) + i].pattern = mn[i]
            /\ \A i \in 1..Len(fl) :
                   /\ checks[su + Len(mr) + Len(mn) + i].name = "outcome.file_exists"
                   /\ checks[su + Len(mr) + Len(mn) + i].file = fl[i]

\* A case with all four kinds of expectation failed on one check while
\* another of its checks passed.
C8_Witness ==
    /\ ev_pc = "done"
    /\ DOMAIN Get(cases[1], "expect", EmptyDict)
           = {"skill_used", "must_run", "must_not_run", "files"}
    /\ ~ev_result.passed
    /\ \E i \in 1..Len(ev_result.checks) : ev_result.checks[i].passed
    /\ ev_result.checks[Len(ev_result.checks)].name = "outcome.file_exists"

\* C9 (as claimed): when every runner invocation of a batch succeeds, main
\* prints one report whose total is the number of cases and whose passed is
\* the number of passing results, and exits 0 iff passed = total, else 1.
C9_ReportAndExit ==
    (ev_pc = "exited" /\ \A i \in 1..Len(runs) : runs[i].status = "ok") =>
        /\ report.emitted
        /\ report.total = Len(cases)
        /\ Len(report.results) = Len(cases)
        /\ report.passed = count_passed(report.results)
        /\ exit_code = (IF report.passed = report.total THEN 0 ELSE 1)

(***************************************************************************)
(* C10                                                                     *)
(***************************************************************************)
IsSystemItem(item) == DOMAIN item = {"role", "content"} /\ item.role = "system"

\* C10: after `clear` the conversation is what it was at session start: the
\* context text and then the skill bundle, each only when it is not blank,
\* and no other item.
C10_ClearResets ==
    (pc = "prompt" /\ user_input = CmdClear) =>
        /\ conversation = session_start
        /\ \A i \in 1..Len(conversation) : IsSystemItem(conversation[i])
        /\ Len(conversation) =
               (IF ContextIsBlank(context_str) THEN 0 ELSE 1)
               + (IF ContextIsBlank(skills_context) THEN 0 ELSE 1)
        /\ ~ContextIsBlank(context_str) => conversation[1].content = context_str
        /\ ~ContextIsBlank(skills_context) =>
               conversation[Len(conversation)].content = skills_context

\* `clear` was typed after two turns, one of them with a dispatch round, in
\* a session that has both preamble items.
C10_Witness ==
    /\ pc = "prompt"
    /\ user_input = CmdClear
    /\ total_requests >= 3
    /\ step >= 1
    /\ Len(conversation) = 2

(***************************************************************************)
(* C3                                                                      *)
(***************************************************************************)
\* C3 (as claimed): for every relative-path input, traversal sequences
\* included, the path safe_join returns resolves to a location inside the
\* workspace root.
C3_Confined ==
    (sj_pc = "done" /\ IsRelative(relpath)) => InsideRoot(WorkspaceRoot, abspath)

(***************************************************************************)
(* C11                                                                     *)
(***************************************************************************)
\* The payload of a call is present and does not parse to a JSON object.
PayloadMalformed(call) ==
    LET a == call_arguments(call) IN ~a.falsy /\ ~(a.parses /\ a.value.isdict)

\* The call with its payload replaced by the text of the empty object.
WithEmptyObject(call) ==
    IF Get(call, "type", None) = "function_call"
    THEN [call EXCEPT !.arguments = JsonObject(EmptyDict)]
    ELSE [call EXCEPT !.function = [@ EXCEPT !.arguments = JsonObject(EmptyDict)]]

Degraded(calls) ==
    [i \in 1..Len(calls) |->
        IF PayloadMalformed(calls[i]) THEN WithEmptyObject(calls[i]) ELSE calls[i]]

\* C11 (as claimed): a dispatch round treats every call whose payload does
\* not parse to a JSON object (invalid JSON, or JSON that is not an object)
\* as the same call with the empty object {}: the round has the results and
\* the workspace effects of that round, and it fails only when that round
\* fails.
C11_MalformedDegrades ==
    [][ToolRound =>
          LET d == dispatch(files, Degraded(pending_of(resp)), <<>>)
          IN  /\ (pc' = "aborted") <=> d.raised
              /\ tool_outputs' = d.outs
              /\ files' = d.fs]_vars

(***************************************************************************)
(* C12                                                                     *)
(***************************************************************************)
KnownTools == {"read_file", "write_file", "run_shell"}

\* The result the dispatch appends for a call whose name is no tool:
\* "Unknown tool: <name>" under the id of the call.
Sentinel(call) ==
    [type |-> "function_call_output", call_id |-> Get(call, "id", None),
     output |-> [unknown_tool |-> call_name(call)]]

\* C12: in a dispatch round, a call whose name is not read_file, write_file
\* or run_shell (a call without a name included) that is reached gets the
\* sentinel result under its id and does not end the round; a round of such
\* calls only leaves the workspace as it was, appends the raw items and one
\* sentinel per call, and makes the next model request.
C12_UnknownToolSentinel ==
    [][ToolRound =>
          LET calls == pending_of(resp) IN
          /\ \A i \in 1..Len(calls) :
                 (call_name(calls[i]) \notin KnownTools /\ Len(tool_outputs') >= i - 1)
                 => /\ Len(tool_outputs') >= i
                    /\ tool_outputs'[i] = Sentinel(calls[i])
          /\ (\A i \in 1..Len(calls) : call_name(calls[i]) \notin KnownTools)
                 => /\ files' = files
                    /\ pc' = "loop"
                    /\ requests' = requests + 1
                    /\ conversation' = conversation \o DictsOf(resp) \o tool_outputs'
                    /\ Len(tool_outputs') = Len(calls)]_vars

\* A round of two calls, one without a name and one named "nop" with a
\* payload that is a JSON array, ended with two sentinels and the next
\* request.
C12_Witness ==
    /\ pc = "loop"
    /\ requests >= 2
    /\ pending_calls = pending_of(RespUnnamed)
    /\ Len(tool_outputs) = 2
    /\ tool_outputs[1].output = [unknown_tool |-> None]
    /\ tool_outputs[2].output = [unknown_tool |-> "nop"]

(***************************************************************************)
(* C13                                                                     *)
(***************************************************************************)
\* The positions of a response whose item carries text (text that is not
\* blank: lines 301 and 310 collect no other).
TextPositions(items) ==
    {i \in 1..Len(items) : ItemText(item_to_dict(items[i])) # <<>>}

\* The text of the last such item, "" when there is none.
LastTextOf(items) ==
    IF TextPositions(items) = {} THEN <<>>
    ELSE LET last == CHOOSE i \in TextPositions(items) :
                         \A j \in TextPositions(items) : j <= i
         IN  ItemText(item_to_dict(items[last]))[1]

\* C13: when the response the loop looks at holds no tool call, the only
\* step the session takes is the end of the turn: the workspace is left as
\* it is, no model request is made, nothing but the assistant message is
\* appended, and its content is the last text of that response ("" when the
\* response carries none).
C13_DoneOnNoCalls ==
    [][(pc = "loop" /\ ~HasCall(resp)) =>
          /\ pc' = "prompt"
          /\ files' = files
          /\ tool_outputs' = tool_outputs
          /\ resp' = resp
          /\ total_requests' = total_requests
          /\ requests' = requests
          /\ conversation' = Append(conversation,
                 [role |-> "assistant", content |-> LastTextOf(resp)])]_vars

\* A turn ended on a response of three messages, the first two with text
\* and the last one blank: the answer is the text of the second.
C13_Witness ==
    /\ pc = "prompt"
    /\ user_input = UserText
    /\ resp = RespTexts
    /\ conversation[Len(conversation)] = [role |-> "assistant", content |-> TextOk]

(***************************************************************************)
(* C14                                                                     *)
(***************************************************************************)
\* C14: when the loop has run max_steps times and the latest response still
\* holds tool calls, the only step the session takes is the end of the
\* turn, without an error: those calls are not run, no request is made, and
\* the assistant message carries the last text of that response ("" when
\* it carries none).
C14_SoftStepLimit ==
    [][(pc = "loop" /\ HasCall(resp) /\ step >= loop_bound(max_steps)) =>
          /\ pc' = "prompt"
          /\ files' = files
          /\ total_requests' = total_requests
          /\ requests' = requests
          /\ conversation' = Append(conversation,
                 [role |-> "assistant", content |-> LastTextOf(resp)])]_vars

\* A turn ran its max_steps rounds and ended on a response that holds a
\* text and two tool calls: the answer is that text.
C14_Witness ==
    /\ pc = "prompt"
    /\ user_input = UserText
    /\ max_steps >= 1
    /\ step = max_steps
    /\ resp = RespReadUnknown
    /\ conversation[Len(conversation)] = [role |-> "assistant", content |-> TextHm]

(***************************************************************************)
(* C15                                                                     *)
(***************************************************************************)
\* The workspace after the first k calls ran one after the other, each on
\* the workspace the one before it left.
RECURSIVE WorkspaceAfter(_, _, _)
WorkspaceAfter(fs, calls, k) ==
    IF k = 0 THEN fs
    ELSE exec_call(WorkspaceAfter(fs, calls, k - 1), calls[k]).fs

\* C15: in a dispatch round the i-th result is the result of the i-th call
\* of the response on the workspace left by calls 1..i-1, under the id of
\* that call; the workspace after the round is the one the calls leave when
\* run in response order; and the results enter the conversation in that
\* order, after the raw items.
C15_SequentialInOrder ==
    [][ToolRound =>
          LET calls == pending_of(resp)
              n == Len(tool_outputs')
          IN  /\ n <= Len(calls)
              /\ \A i \in 1..n :
                     LET r == exec_call(WorkspaceAfter(files, calls, i - 1), calls[i])
                     IN  /\ ~r.raised
                         /\ tool_outputs'[i].call_id = Get(calls[i], "id", None)
                         /\ tool_outputs'[i].output = r.out
              /\ files' = WorkspaceAfter(files, calls, n)
              /\ n < Len(calls) =>
                     /\ pc' = "aborted"
                     /\ exec_call(files', calls[n + 1]).raised
              /\ n = Len(calls) =>
                     /\ pc' = "loop"
                     /\ conversation' = conversation \o DictsOf(resp) \o tool_outputs']_vars

\* A round wrote a, removed it and ran the empty command: the removal
\* found the file (status 0) and a is absent after the round.
C15_Witness ==
    /\ pc = "loop"
    /\ pending_calls = pending_of(RespWriteRm)
    /\ Len(tool_outputs) = 3
    /\ tool_outputs[1].output = [wrote |-> 1, to |-> PathA]
    /\ tool_outputs[2].output = [command |-> CmdRmA, exit_code |-> 0]
    /\ tool_outputs[3].output = [command |-> CmdEmpty, exit_code |-> 0]
    /\ LocA \notin DOMAIN files

(***************************************************************************)
(* C16                                                                     *)
(***************************************************************************)
\* Call i of the round is reached (no call before it raises) and is a
\* read_file of a path that names nothing in the workspace at that point.
ReadsAbsent(fs, calls, i) ==
    /\ \A j \in 1..(i - 1) : ~exec_call(WorkspaceAfter(fs, calls, j - 1), calls[j]).raised
    /\ call_name(calls[i]) = "read_file"
    /\ PayloadIsDict(calls[i])
    /\ LET path == Get(parse_arguments(call_arguments(calls[i])).d, "path", <<>>)
           loc == Resolve(safe_join(WorkspaceRoot, path))
           now == WorkspaceAfter(fs, calls, i - 1)
       IN  loc \notin DOMAIN now /\ ~IsDirectory(now, loc)

\* C16: a dispatch round that reaches a read_file of an absent path ends the
\* run: the raw items of the response are the last thing in the
\* conversation (no tool result, no assistant message), no model request
\* follows, and the session takes no further step.
C16_ReadAbsentAborts ==
    [][/\ pc # "aborted"
       /\ (ToolRound /\ \E i \in 1..Len(pending_of(resp)) :
                            ReadsAbsent(files, pending_of(resp), i))
            => /\ pc' = "aborted"
               /\ conversation' = conversation \o DictsOf(resp)
               /\ Len(tool_outputs') < Len(pending_of(resp))
               /\ total_requests' = total_requests
               /\ requests' = requests
               /\ resp' = resp]_vars

\* The run ended on a read_file of a, which the workspace does not hold:
\* the conversation ends with the raw items of the response.
C16_Witness ==
    /\ pc = "aborted"
    /\ resp = RespReadUnknown
    /\ tool_outputs = <<>>
    /\ LocA \notin DOMAIN files
    /\ conversation[Len(conversation)] = item_to_dict(resp[Len(resp)])
    /\ conversation[Len(conversation) - 1] = item_to_dict(resp[2])

(***************************************************************************)
(* C17                                                                     *)
(***************************************************************************)
\* The runner exits with a nonzero status, or prints something that is not
\* a JSON document with workspace_dir.
RunnerFails(run) == run.status \in {"nonzero", "badjson", "nokey"}

\* C17: eval_case on a case whose runner fails raises and returns no
\* result.  In a batch, when the runner started for case i fails, it is the
\* last runner started (no case after i is run), the cases before i were
\* run and their runners succeeded, and the harness ends without a report
\* (no result of case i or of any other case is printed) and with a nonzero
\* status; a batch in which some runner would fail never ends with a report.
C17_BatchAborts ==
    /\ (ev_pc \in {"done", "raised"} /\ RunnerFails(runs[1])) =>
           /\ ev_pc = "raised"
           /\ ev_result.raised
           /\ ~ev_result.returned
    /\ ev_pc = "exited" =>
           /\ runner_calls <= Len(cases)
           /\ \A i \in 1..runner_calls :
                  RunnerFails(runs[i]) =>
                      /\ runner_calls = i
                      /\ \A j \in 1..(i - 1) : ~RunnerFails(runs[j])
                      /\ ~report.emitted
                      /\ report.results = <<>>
                      /\ exit_code # 0
           /\ (\E i \in 1..Len(runs) : RunnerFails(runs[i])) =>
                  /\ ~report.emitted
                  /\ exit_code # 0

\* A batch of two cases got past line 166: the runner of the first case
\* succeeded, the runner of the second exited with a nonzero status, and
\* the harness ended with status 1 and no report, the result of the first
\* case included.
C17_Witness ==
    /\ ev_pc = "exited"
    /\ Len(cases) = 2
    /\ runner_calls = 2
    /\ runs[1].status = "ok"
    /\ runs[2].status = "nonzero"
    /\ report = NoReport
    /\ exit_code = 1

(***************************************************************************)
(* C18                                                                     *)
(***************************************************************************)
IsCallDict(d) == Get(d, "type", None) \in {"tool_call", "function_call"}
IsResultDict(d) == Get(d, "type", None) = "function_call_output"

\* The positions of the first n items that are tool calls with this id, and
\* those that are tool results with this call_id.
CallsWithId(conv, n, id) ==
    {i \in 1..n : IsCallDict(conv[i]) /\ Get(conv[i], "id", None) = id}
ResultsWithId(conv, n, id) ==
    {i \in 1..n : IsResultDict(conv[i]) /\ Get(conv[i], "call_id", None) = id}

IdsOf(conv) ==
    {Get(conv[i], "id", None) : i \in {j \in 1..Len(conv) : IsCallDict(conv[j])}}
    \cup {Get(conv[i], "call_id", None) : i \in {j \in 1..Len(conv) : IsResultDict(conv[j])}}

\* C18 (as claimed): at every model request, every tool call of the
\* conversation is followed by exactly one tool result whose call_id is its
\* id, and every tool result is preceded by a tool call with that id.
C18_PairedById ==
    pc = "loop" =>
        /\ \A i \in 1..Len(conversation) :
               IsCallDict(conversation[i]) =>
                   Cardinality({j \in (i + 1)..Len(conversation) :
                                   /\ IsResultDict(conversation[j])
                                   /\ Get(conversation[j], "call_id", None)
                                          = Get(conversation[i], "id", None)}) = 1
        /\ \A j \in 1..Len(conversation) :
               IsResultDict(conversation[j]) =>
                   \E i \in 1..(j - 1) :
                       /\ IsCallDict(conversation[i])
                       /\ Get(conversation[i], "id", None)
                              = Get(conversation[j], "call_id", None)

\* C18 (amended): at every model request, and whenever the session waits
\* for input, every id is carried by as many tool results as tool calls of
\* the conversation and, in every prefix of it, by no more results than
\* calls; after a round the conversation ends with that round's results,
\* one per call in call order under the id of the call, and the calls are
\* in the conversation before them.  A turn that ended at the step limit
\* left the calls of its last response out.
C18_PairedPerRound ==
    pc # "aborted" =>
        /\ \A id \in IdsOf(conversation) :
               /\ Cardinality(CallsWithId(conversation, Len(conversation), id))
                      = Cardinality(ResultsWithId(conversation, Len(conversation), id))
               /\ \A n \in 1..Len(conversation) :
                      Cardinality(ResultsWithId(conversation, n, id))
                          <= Cardinality(CallsWithId(conversation, n, id))
        /\ (pc = "loop" /\ step >= 1) =>
               LET k == Len(tool_outputs)
                   n == Len(conversation)
               IN  /\ k = Len(pending_calls)
                   /\ SubSeq(conversation, n - k + 1, n) = tool_outputs
                   /\ \A i \in 1..k :
                          tool_outputs[i].call_id = Get(pending_calls[i], "id", None)
                   /\ SelectSeq(SubSeq(conversation, 1, n - k), IsCallDict)
                          # <<>>
                   /\ LET before == SelectSeq(SubSeq(conversation, 1, n - k), IsCallDict)
                      IN  SubSeq(before, Len(before) - k + 1, Len(before)) = pending_calls

\* A request was made on a conversation that holds two rounds whose calls
\* carry the same id, each followed by its own result.
C18_Witness ==
    /\ pc = "loop"
    /\ step >= 1
    /\ \E id \in IdsOf(conversation) :
           /\ Cardinality(CallsWithId(conversation, Len(conversation), id)) = 2
           /\ Cardinality(ResultsWithId(conversation, Len(conversation), id)) = 2

(***************************************************************************)
(* C19                                                                     *)
(***************************************************************************)
\* C19: every step of a session that is not `clear` (the user message and
\* first request, a dispatch round, a round cut short by an exception, the
\* end of a turn, exit) leaves the conversation it found as a prefix of the
\* conversation it leaves, and in every reachable state the conversation
\* starts with the system preamble of the session.
C19_AppendOnly ==
    /\ [][Clear \/ IsPrefix(conversation, conversation')]_vars
    /\ [](IsPrefix(session_start, conversation)
          /\ session_start = initial_conversation(context_str, skills_context))

\* A session with both preamble items went through a dispatch round and
\* the end of the turn: the conversation holds the preamble, the user
\* message, the raw call, its result and the assistant message.
C19_Witness ==
    /\ pc = "prompt"
    /\ user_input = UserText
    /\ Len(session_start) = 2
    /\ step >= 1
    /\ Len(conversation) >= Len(session_start) + 4
    /\ conversation[Len(session_start) + 1] = [role |-> "user", content |-> UserText]
    /\ Get(conversation[Len(conversation)], "role", None) = "assistant"

(***************************************************************************)
(* C20                                                                     *)
(***************************************************************************)
\* The trace has a read entry whose path contains "skill.md" in any mix of
\* cases, or a shell entry whose command contains "scripts/".
RoutingEvidence(trace) ==
    \E i \in 1..Len(trace) :
        LET e == trace[i] IN
        \/ /\ "type" \in DOMAIN e /\ e.type = "read"
           /\ "path" \in DOMAIN e
           /\ \E off \in 0..(Len(e.path) - Len(SkillMd)) :
                  \A k \in 1..Len(SkillMd) : LowerChar(e.path[off + k]) = SkillMd[k]
        \/ /\ "type" \in DOMAIN e /\ e.type = "shell"
           /\ "command" \in DOMAIN e
           /\ \E off \in 0..(Len(e.command) - Len(ScriptsDir)) :
                  SubSeq(e.command, off + 1, off + Len(ScriptsDir)) = ScriptsDir

\* C20: the result of a case holds a routing check exactly when expect has
\* skill_used; that check reports what the detector found, which is true
\* iff the trace has a read of a path containing "skill.md" (in any case)
\* or a shell command containing "scripts/", and it passes iff that equals
\* the expected boolean.
C20_RoutingDetector ==
    ev_pc = "done" =>
        LET expect == Get(cases[1], "expect", EmptyDict)
            trace == runs[1].tool_calls
            routing == SelectSeq(ev_result.checks,
                                 LAMBDA c : c.name = "routing.skill_used")
        IN  /\ Len(routing) = (IF "skill_used" \in DOMAIN expect THEN 1 ELSE 0)
            /\ \A i \in 1..Len(routing) :
                   /\ routing[i].got <=> RoutingEvidence(trace)
                   /\ routing[i].want = expect["skill_used"]
                   /\ routing[i].passed <=>
                          (RoutingEvidence(trace) <=> expect["skill_used"])

\* The trace holds a write entry that names a manifest and mentions
\* scripts/ (no evidence) and a read of s/a/SKILL.md (evidence, by its
\* upper-case name); the case expected no skill use, so the routing check
\* found true and failed.
C20_Witness ==
    /\ ev_pc = "done"
    /\ runs[1].tool_calls =
           <<[type |-> "write", path |-> PathSkillB, command |-> ScriptsDir],
             [type |-> "read", path |-> PathSkillA]>>
    /\ "skill_used" \in DOMAIN Get(cases[1], "expect", EmptyDict)
    /\ ~cases[1].expect["skill_used"]
    /\ ev_result.checks[1].name = "routing.skill_used"
    /\ ev_result.checks[1].got
    /\ ~ev_result.checks[1].passed

(***************************************************************************)
(* C21                                                                     *)
(***************************************************************************)
\* s without the characters of C at its two ends.
Trim(s, C) ==
    LET keep == {i \in 1..Len(s) : s[i] \notin C} IN
    IF keep = {} THEN <<>>
    ELSE SubSeq(s, CHOOSE i \in keep : \A j \in keep : i <= j,
                   CHOOSE i \in keep : \A j \in keep : j <= i)

\* The line is the delimiter, whitespace at its ends apart.
IsDelimiterLine(l) == Trim(l, Whitespace) = <<"-", "-", "-">>

\* The line begins with name: in any mix of cases, leading whitespace apart.
BeginsWithName(l) ==
    LET t == Trim(l, Whitespace) IN
    /\ Len(t) >= 5
    /\ [i \in 1..5 |-> LowerChar(t[i])] = <<"n", "a", "m", "e", ":">>

\* The value of a name: line: what follows its first colon, without the
\* whitespace and then the quote characters around it.
NameValue(l) ==
    LET t == Trim(l, Whitespace)
        colon == CHOOSE i \in 1..Len(t) : t[i] = ":" /\ \A j \in 1..(i - 1) : t[j] # ":"
        v == Trim(SubSeq(t, colon + 1, Len(t)), Whitespace)
    IN  Trim(Trim(v, {"\""}), {"'"})

\* C21: extract_frontmatter_name returns "" when the text has no first line
\* that is the delimiter, when no later line within the scan window is the
\* delimiter, or when no line strictly between the first line and the first
\* such line begins with name:; otherwise it returns the value of the first
\* line between them that does.  A name: line after the closing delimiter
\* is never used.
C21_FrontmatterName ==
    fm_pc = "done" =>
        LET lines == splitlines(fm_text, <<>>)
            window == IF Len(lines) < ScanWindow THEN Len(lines) ELSE ScanWindow
            closing == {i \in 2..window : IsDelimiterLine(lines[i])}
        IN  IF lines = <<>> \/ ~IsDelimiterLine(lines[1]) THEN fm_name = <<>>
            ELSE IF closing = {} THEN fm_name = <<>>
            ELSE LET end == CHOOSE i \in closing : \A j \in closing : i <= j
                     names == {i \in 2..(end - 1) : BeginsWithName(lines[i])}
                 IN  IF names = {} THEN fm_name = <<>>
                     ELSE fm_name =
                              NameValue(lines[CHOOSE i \in names : \A j \in names : i <= j])

\* A block with two name: lines, the first one indented, capitalised and
\* quoted with single quotes: its value is the name.
C21_Witness ==
    /\ fm_pc = "done"
    /\ fm_text = JoinLines(<<LineDelim, LineNameUpper, LineName, LineDelimSpace>>)
    /\ fm_name = <<"b">>

(***************************************************************************)
(* C22                                                                     *)
(***************************************************************************)
\* The tree without the files that exist but cannot be read.
WithoutUnreadable ==
    [p \in DOMAIN tree |->
        IF tree[p].exists /\ ~tree[p].readable
        THEN [exists |-> FALSE, readable |-> FALSE, text |-> <<>>]
        ELSE tree[p]]

\* C22: a candidate that cannot be read has no chunk and no metadata entry,
\* and the call returns what it returns when the unreadable candidates are
\* not among the candidates at all: they use none of the budget and the
\* candidates after them are taken in order under the budget rule.
C22_UnreadableSkipped ==
    ctx_pc = "done" =>
        /\ \A i \in 1..Len(Candidates) :
               ~IsReadable(Candidates[i]) =>
                   /\ \A c \in 1..Len(Emitted) : Emitted[c].path # Candidates[i]
                   /\ \A m \in 1..Len(ctx_result.meta) :
                          ctx_result.meta[m].path # Candidates[i]
        /\ ctx_result =
               (IF ctx_fn = "skills"
                THEN build_skills_context(WithoutUnreadable, SkillsDir, max_chars_total)
                ELSE IF ctx_fn = "context"
                THEN build_context(tree, ReadableCandidates, max_chars_total)
                ELSE build_personality_context(tree, ReadableCandidates, max_chars_total))

\* build_context was given a file that exists but cannot be read and then
\* a readable one: the returned text holds the chunk of the second only.
C22_Witness ==
    /\ ctx_pc = "done"
    /\ ctx_fn = "context"
    /\ Len(ctx_files) = 2
    /\ tree[ctx_files[1]].exists
    /\ ~tree[ctx_files[1]].readable
    /\ IsReadable(ctx_files[2])
    /\ Len(Emitted) = 1
    /\ Emitted[1].path = ctx_files[2]
    /\ ctx_result.meta = <<[path |-> ctx_files[2], chars |-> Len(tree[ctx_files[2]].text)]>>

(***************************************************************************)
(* C23                                                                     *)
(***************************************************************************)
\* The messages the session itself appends: {"role": ..., "content": ...}.
IsUserItem(item) == DOMAIN item = {"role", "content"} /\ item.role = "user"
IsAssistantItem(item) == DOMAIN item = {"role", "content"} /\ item.role = "assistant"

UserPositions == {i \in 1..Len(conversation) : IsUserItem(conversation[i])}
AssistantPositions == {i \in 1..Len(conversation) : IsAssistantItem(conversation[i])}

\* A turn is under way (or was cut short by an exception).
InTurn == pc \in {"loop", "aborted"}

\* What the steps that start and end a turn do to the conversation.
TurnEdges ==
    /\ (pc = "loop" /\ pc' = "prompt") =>
           conversation' = Append(conversation,
               [role |-> "assistant", content |-> LastTextOf(resp)])
    /\ (pc = "prompt" /\ pc' = "loop") =>
           /\ conversation' = Append(conversation,
                  [role |-> "user", content |-> user_input'])
           /\ requests' = 1

\* C23: the step that ends a turn appends the assistant message with the
\* turn's final answer and nothing else (the raw items of the last response
\* stay out), and the step that starts one appends the user message and
\* nothing else.  So the conversation holds one assistant message per
\* finished turn and one user message per turn: a user message opens every
\* turn right after the preamble or right after the assistant message of
\* the turn before, an assistant message is the last item or is followed by
\* the next user message, and what lies between a user message and its
\* assistant message is never a user or assistant message.
C23_OneUserOneAssistant ==
    /\ [][TurnEdges]_vars
    /\ [](/\ Cardinality(UserPositions)
                 = Cardinality(AssistantPositions) + (IF InTurn THEN 1 ELSE 0)
          /\ \A u \in UserPositions :
                 \/ u = Len(session_start) + 1
                 \/ (u - 1) \in AssistantPositions
          /\ \A a \in AssistantPositions :
                 \/ a = Len(conversation)
                 \/ (a + 1) \in UserPositions
          /\ ~InTurn =>
                 (AssistantPositions # {} => Len(conversation) \in AssistantPositions))

\* The first request of a second turn: the conversation holds the first
\* turn's user message, tool call, tool result and assistant message, and
\* the new user message.
C23_Witness ==
    /\ pc = "loop"
    /\ step = 0
    /\ Cardinality(UserPositions) = 2
    /\ Cardinality(AssistantPositions) = 1
    /\ \E i \in 1..Len(conversation) : IsResultDict(conversation[i])
    /\ Len(conversation) \in UserPositions

(***************************************************************************)
(* C24                                                                     *)
(***************************************************************************)
\* Call j of the round is reached (no call before it raises) and raises.
AbortsAt(fs, calls, j) ==
    /\ \A i \in 1..(j - 1) : ~exec_call(WorkspaceAfter(fs, calls, i - 1), calls[i]).raised
    /\ exec_call(WorkspaceAfter(fs, calls, j - 1), calls[j]).raised

\* C24: when call j of a dispatch round aborts the run, the workspace after
\* the round is the one calls 1..j-1 left (their writes and commands have
\* happened, call j and the calls after it changed nothing), the j-1 results
\* collected so far are not in the conversation, which grew by the raw items
\* of the response and nothing else: no result item follows them, and no
\* result in the conversation carries the id of a call of the round unless
\* an earlier round already used that id.
C24_PartialEffectsPersist ==
    [][\A j \in 1..Len(pending_of(resp)) :
           (ToolRound /\ AbortsAt(files, pending_of(resp), j)) =>
               LET calls == pending_of(resp)
                   before == Len(conversation)
               IN  /\ pc' = "aborted"
                   /\ files' = WorkspaceAfter(files, calls, j - 1)
                   /\ Len(tool_outputs') = j - 1
                   /\ conversation' = conversation \o DictsOf(resp)
                   /\ \A i \in (before + 1)..Len(conversation') :
                          ~IsResultDict(conversation'[i])
                   /\ \A c \in 1..Len(calls) :
                          \A i \in 1..Len(conversation') :
                              (/\ IsResultDict(conversation'[i])
                               /\ conversation'[i].call_id = Get(calls[c], "id", None))
                              => i <= before]_vars

\* The run ended on the read of b, the third call of its round: a holds the
\* y the second call wrote (the fourth call, which would remove a, did not
\* run), two results were collected, and the conversation ends with the
\* four raw call items and holds no result under their ids.
C24_Witness ==
    /\ pc = "aborted"
    /\ resp = RespPartial
    /\ LocA \in DOMAIN files
    /\ files[LocA] = ContentY
    /\ Len(tool_outputs) = 2
    /\ Len(conversation) >= 4
    /\ SubSeq(conversation, Len(conversation) - 3, Len(conversation)) = DictsOf(resp)
    /\ \A i \in 1..Len(conversation) :
           IsResultDict(conversation[i])
               => conversation[i].call_id \notin {"c8", "c9", "c10", "c11"}

====
